---- MODULE Spec2Model ----
(***************************************************************************)
(* Model of the Twilio <-> OpenAI Realtime audio bridge (server.js and its *)
(* earlier snapshot).  The repository holds several successive variants of *)
(* the bridge; the call model covers the "echo" variant                    *)
(* (src/server.js:1-301) and the "noecho" variant (src/server.js:646-1080);*)
(* the "deferred" variant (src/server.js:305-642) and the snapshot         *)
(* (src/unnamed/part_000) have their own sections and specifications.      *)
(* The codec and framing helpers are pure operators over sequences.        *)
(***************************************************************************)
EXTENDS Integers, Sequences, FiniteSets, TLC

\* ------------------------------------------------------------------------
\* Small helpers (JavaScript integer semantics)
\* ------------------------------------------------------------------------

\* Store into an Int16Array element: wrap modulo 2^16 into -32768..32767.
ToInt16(v) == ((v + 32768) % 65536) - 32768

Min(a, b) == IF a < b THEN a ELSE b

Max(a, b) == IF a > b THEN a ELSE b

\* x & m for a single-bit mask m = 2^k, x read in two's complement.
BitAnd1(x, m) == ((x \div m) % 2) * m

\* ------------------------------------------------------------------------
\* mu-law helpers  (src/server.js:25-54)
\* ------------------------------------------------------------------------

BIAS == 132

CLIP == 32635

\* The value the table builder computes for index i before it is stored.
MuLawExpandRaw(i) ==
  LET mu     == 255 - i                       \* ~i & 0xff
      sign   == BitAnd1(mu, 128)              \* mu & 0x80
      exp    == (mu \div 16) % 8              \* (mu >> 4) & 0x07
      man    == mu % 16                       \* mu & 0x0f
      sample == ((man * 16) + 8) * (2 ^ (exp + 3)) - BIAS
  IN  IF sign # 0 THEN -sample ELSE sample

\* MULAW_EXPAND[i]: the table entry as the Int16Array holds it.
MULAW_EXPAND(i) == ToInt16(MuLawExpandRaw(i))

muLawDecodeToPcm16(u8) == [i \in 1..Len(u8) |-> MULAW_EXPAND(u8[i])]

\* for (m = 0x4000; (pcm & m) === 0 && exp > 0; exp--, m >>= 1) {}
RECURSIVE ExpLoop(_, _, _)
ExpLoop(pcm, exp, m) ==
  IF BitAnd1(pcm, m) = 0 /\ exp > 0 THEN ExpLoop(pcm, exp - 1, m \div 2) ELSE exp

\* One sample of pcm16ToMuLaw.
MuLawEncodeSample(s) ==
  LET sign == BitAnd1(s \div 256, 128)        \* (pcm >> 8) & 0x80
      a    == IF s < 0 THEN -s ELSE s
      c    == IF a > CLIP THEN CLIP ELSE a
      pcm  == c + BIAS
      exp  == ExpLoop(pcm, 7, 16384)
      man  == (pcm \div (2 ^ (exp + 3))) % 16
  IN  255 - (sign + exp * 16 + man)           \* ~(sign|exp<<4|man) & 0xff

pcm16ToMuLaw(int16) == [i \in 1..Len(int16) |-> MuLawEncodeSample(int16[i])]

upsample8kTo16k(pcm8k) ==
  [j \in 1..(2 * Len(pcm8k)) |-> pcm8k[(j + 1) \div 2]]

downsampleIntFactor(int16, factor) ==
  [j \in 1..(Len(int16) \div factor) |-> int16[(j - 1) * factor + 1]]

\* ------------------------------------------------------------------------
\* Frame cutting helpers
\* ------------------------------------------------------------------------

\* 160 mu-law bytes = 20 ms @ 8 kHz.
FRAME == 160

\* Length of typedArray.subarray(begin, end) on an array of bufLen elements.
SubarrayLen(bufLen, begin, end) ==
  Max(0, Min(end, bufLen) - Min(begin, bufLen))

\* A loop running to the end of the buffer (i < ulaw.length), which would push
\* a short last frame; C5 does not hold of it.
RECURSIVE FrameOffsetsToEnd(_, _)
FrameOffsetsToEnd(i, bufLen) ==
  IF i < bufLen THEN <<i>> \o FrameOffsetsToEnd(i + 160, bufLen) ELSE <<>>

\* for (let i = 0; i + 160 <= ulaw.length; i += 160) ...: the offsets visited.
RECURSIVE FrameOffsets(_, _)
FrameOffsets(i, bufLen) ==
  IF i + FRAME <= bufLen THEN <<i>> \o FrameOffsets(i + FRAME, bufLen) ELSE <<>>

\* The lengths of the frames that loop pushes for a buffer of bufLen bytes.
CutFrameLens(bufLen) ==
  LET offs == FrameOffsets(0, bufLen)
  IN  [j \in 1..Len(offs) |-> SubarrayLen(bufLen, offs[j], offs[j] + FRAME)]

\* The frames themselves (views of ulaw), for the data-level checks.
CutFrames(ulaw) ==
  LET offs == FrameOffsets(0, Len(ulaw))
  IN  [j \in 1..Len(offs) |->
        SubSeq(ulaw, Min(offs[j], Len(ulaw)) + 1, Min(offs[j] + FRAME, Len(ulaw)))]

\* new Int16Array(raw.buffer, raw.byteOffset, Math.floor(raw.byteLength / 2))
Int16ViewLen(byteLength) == byteLength \div 2

\* The 1 s test beep: 50 frames of 160 samples.
ToneFrames == 50

ToneTotal == ToneFrames * FRAME

\* pcm16ToMuLaw keeps the length, so toneU.length = total.
ToneFrameLens == CutFrameLens(ToneTotal)

\* ------------------------------------------------------------------------
\* 24 kHz -> 8 kHz decimator and mu-law framer of the noecho variant
\* (src/server.js:716-763), at the level of buffer lengths.
\* ------------------------------------------------------------------------

TAPS == 63

DecimNeed == TAPS - 1

\* decimate(int16In): number of output samples for a carry-over of keepLen.
DecimOutCount(keepLen, inLen) ==
  LET avail == keepLen + inLen - DecimNeed
  IN  IF avail <= 0 THEN 0 ELSE avail \div 3

\* decimate(int16In): length of the carry-over it leaves.
DecimKeepLen(keepLen, inLen) ==
  LET avail == keepLen + inLen - DecimNeed
  IN  IF avail <= 0 THEN keepLen + inLen
      ELSE DecimNeed + (avail - 3 * (avail \div 3))

\* A framer that forgets its remainder between calls; C6 does not hold of it.
flushUlawFramesNoCarry(rem, chunk) ==
  LET n == (Len(chunk) \div 160) * 160
  IN  [frames    |-> [j \in 1..(Len(chunk) \div 160) |->
                        SubSeq(chunk, (j - 1) * 160 + 1, j * 160)],
       remainder |-> SubSeq(chunk, n + 1, Len(chunk))]

\* flushUlawFrames(ulawChunk, queue) on explicit bytes:
\* the frames pushed and the remainder kept.
flushUlawFrames(ulawRemainder, ulawChunk) ==
  LET combined == ulawRemainder \o ulawChunk
      offs     == FrameOffsets(0, Len(combined))
      off      == Len(offs) * FRAME
  IN  [frames    |-> CutFrames(combined),
       remainder |-> SubSeq(combined, off + 1, Len(combined))]

\* The same, on lengths only.
FlushFrameLens(remLen, chunkLen) == CutFrameLens(remLen + chunkLen)

FlushRemLen(remLen, chunkLen) ==
  LET total == remLen + chunkLen
  IN  SubarrayLen(total, Len(FrameOffsets(0, total)) * FRAME, total)

\* ------------------------------------------------------------------------
\* Bounds of the model
\* ------------------------------------------------------------------------

\* Frames enqueued per call, all sources together (the tone alone is 50).
MaxFrames == 52

\* Frames the pacer sends per call.
MaxSent == 3

\* Well-formed telephony audio frames handled per call.
MaxMedia == 1

\* AI audio deltas handled per call.
MaxDeltas == 1

\* ------------------------------------------------------------------------
\* State of one call (the closure of wss.on("connection"))
\* ------------------------------------------------------------------------

VARIABLES
  variant,            \* "echo" (server.js:1-301) or "noecho" (server.js:646-1080)
  streamSid,          \* let streamSid = null
  queue,              \* const queue = []  (frames: id, src, len)
  pacerOn,            \* the setInterval handle is live (not yet clearInterval'd)
  twilioState,        \* twilioWs.readyState
  openaiState,        \* openaiWs.readyState
  openaiReady,        \* let openaiReady = false
  assistantSpeaking,  \* let assistantSpeaking = false
  timerHandle,        \* speakingResetTimer !== null
  timerPending,       \* the setTimeout callback has neither run nor been cleared
  frames,             \* let frames = 0 (echo variant)
  decimKeepLen,       \* keep.length of the decimator closure (noecho variant)
  ulawRemLen,         \* ulawRemainder.length of the framer closure (noecho)
  symParam,           \* let symParam = ""   (noecho)
  instParam,          \* let instParam = ""  (noecho; a sequence of words)
  greetingSent,       \* let greetingSent = false (noecho)
  pendingLookups,     \* instruction lookups awaiting their fetch (noecho)
  enqueued,           \* history: every frame ever pushed to queue, in order
  twilioSent,         \* history: messages sent on the telephony socket
  openaiSent,         \* history: messages sent on the AI socket
  nMedia, nDeltas,    \* history: audio frames and audio deltas handled so far
  \* --- the helpers exercised on their own (data-level checks) ---
  codecIn,            \* u8: the mu-law bytes given to muLawDecodeToPcm16
  codecPcm,           \* the Int16Array it returned (<<>> before the call)
  codecOut,           \* pcm16ToMuLaw of that (<<>> before the call)
  ulawRemainder,      \* the framer closure's ulawRemainder (bytes)
  framerQueue,        \* the frames flushUlawFrames pushed, in order
  framerInput,        \* history: all chunks given to the framer, concatenated
  aiPos,              \* history: samples of the AI audio stream delivered so far
  aiQueue,            \* the frames the echo variant's delta branch pushed
  dsSignal,           \* which 24 kHz stream the decimator is fed
  dsFir,              \* H, the coefficients designLowpassFIR returned
  dsFed,              \* history: samples given to the decimator so far
  keep,               \* the decimator closure's keep
  dsOut,              \* history: every output sample of the decimator, in order
  dsLast,             \* history: the last helper call, its input and output lengths
  upOut,              \* what upsample8kTo16k returned (<<>> before the call)
  toolPending,        \* the runTool call suspended at its fetch, or NoTool
  toolLog,            \* history: every settled runTool call, in order
  \* --- state of the other variants of the bridge, and of the scenarios ---
  twilioStarted,      \* let twilioStarted = false   (server.js:420)
  sessionApplied,     \* let sessionApplied = false  (server.js:421)
  pendingInstructions,\* let pendingInstructions = "" (server.js:424)
  pendingAssistantId, \* let pendingAssistantId = ""  (server.js:425)
  startAwaiting,      \* handleStartEvent calls suspended at their await (server.js:557)
  connectPhase,       \* part_000:144-150: "awaiting" connectOpenAI(), "ready", "failed"
  uncaught,           \* an exception left a handler uncaught (the process ends)
  offered,            \* the sub-protocols the telephony peer offered
  handshake,          \* "pending", "accepted" (101 sent) or "threw"
  selected,           \* twilioWs.protocol
  lastAiEvent,        \* history: the last turn event from the AI ("delta", "end")
  scriptPhase,        \* history: "none", "speech", "silence" or "other"
  dropLog,            \* history: the telephony messages dropped, by kind
  \* --- two calls served by one process ---
  sessions,           \* per connection: the variables of its handler's closure
  decimators,         \* per decimator instance: samples it carries over
  framers,            \* per framer instance: bytes it carries over
  lastCall,           \* history: the connection whose handler ran last (0: none)
  \* --- the timeouts of the runtime ---
  timersArmed         \* the setTimeout callbacks scheduled, neither run nor cancelled

callVars ==
  <<variant, streamSid, queue, pacerOn, twilioState, openaiState, openaiReady,
    assistantSpeaking, timerHandle, timerPending, frames, decimKeepLen,
    ulawRemLen, symParam, instParam, greetingSent, pendingLookups, enqueued,
    twilioSent, openaiSent, nMedia, nDeltas>>

pureVars ==
  <<codecIn, codecPcm, codecOut, ulawRemainder, framerQueue, framerInput,
    aiPos, aiQueue, dsSignal, dsFir, dsFed, keep, dsOut, dsLast, upOut,
    toolPending, toolLog>>

dspVars == <<dsSignal, dsFir, dsFed, keep, dsOut, dsLast, upOut>>

toolVars == <<toolPending, toolLog>>

extVars ==
  <<twilioStarted, sessionApplied, pendingInstructions, pendingAssistantId,
    startAwaiting, connectPhase, uncaught, offered, handshake, selected,
    lastAiEvent, scriptPhase, dropLog, sessions, decimators, framers, lastCall,
    timersArmed>>

vars == <<callVars, extVars, pureVars>>

Null == "<null>"

Absent == "<absent>"

\* JavaScript truthiness of an optional string field.
Truthy(s) == s # Null /\ s # Absent /\ s # ""

Variants == {"echo", "noecho"}

CallInit(v) ==
  /\ variant = v
  /\ streamSid = Null
  /\ queue = <<>>
  /\ pacerOn = TRUE
  /\ twilioState = "OPEN"
  /\ openaiState = "CONNECTING"
  /\ openaiReady = FALSE
  /\ assistantSpeaking = FALSE
  /\ timerHandle = FALSE
  /\ timerPending = FALSE
  /\ frames = 0
  /\ decimKeepLen = 0
  /\ ulawRemLen = 0
  /\ symParam = ""
  /\ instParam = <<>>
  /\ greetingSent = FALSE
  /\ pendingLookups = 0
  /\ enqueued = <<>>
  /\ twilioSent = <<>>
  /\ openaiSent = <<>>
  /\ nMedia = 0
  /\ nDeltas = 0

\* The helper variables at rest.
\* No helper has been called: a fresh decimator closure (keep empty).
NoCall == [fn |-> "none", inLen |-> 0, outLen |-> 0]

DspIdle ==
  /\ dsSignal = "zero"
  /\ dsFir = "boxcar"
  /\ dsFed = 0
  /\ keep = <<>>
  /\ dsOut = <<>>
  /\ dsLast = NoCall
  /\ upOut = <<>>

\* No tool call is in flight.
NoTool == [name |-> "<none>"]

ToolIdle ==
  /\ toolPending = NoTool
  /\ toolLog = <<>>

PureIdle ==
  /\ codecIn = <<>>
  /\ codecPcm = <<>>
  /\ codecOut = <<>>
  /\ ulawRemainder = <<>>
  /\ framerQueue = <<>>
  /\ framerInput = <<>>
  /\ aiPos = 0
  /\ aiQueue = <<>>
  /\ DspIdle
  /\ ToolIdle

\* The connections of the two-call scenario.
CallIds == {1, 2}

\* The closure variables of a connection handler as it starts: streamSid
\* null, empty queue, openaiReady and assistantSpeaking false, frames 0.
FreshSession ==
  [streamSid |-> Null, queue |-> <<>>, twilioOpen |-> TRUE, ai |-> "CONNECTING",
   openaiReady |-> FALSE, assistantSpeaking |-> FALSE, timerPending |-> FALSE,
   frames |-> 0, sent |-> 0, nMedia |-> 0, nDeltas |-> 0]

\* Outside the two-call scenario these stay as created.
HouseIdle ==
  /\ sessions = [c \in CallIds |-> FreshSession]
  /\ decimators = [c \in CallIds |-> 0]
  /\ framers = [c \in CallIds |-> 0]
  /\ lastCall = 0
  /\ timersArmed = 0

\* The variables of the other variants and of the scenarios, for a call that
\* was accepted with the "audio" sub-protocol and is served by this variant.
ExtIdle ==
  /\ twilioStarted = FALSE
  /\ sessionApplied = FALSE
  /\ pendingInstructions = ""
  /\ pendingAssistantId = ""
  /\ startAwaiting = 0
  /\ connectPhase = "ready"
  /\ uncaught = FALSE
  /\ offered = <<"audio">>
  /\ handshake = "accepted"
  /\ selected = "audio"
  /\ lastAiEvent = "none"
  /\ scriptPhase = "none"
  /\ dropLog = <<>>
  /\ HouseIdle

Init == (\E v \in Variants : CallInit(v)) /\ ExtIdle /\ PureIdle

\* ------------------------------------------------------------------------
\* Outbound queue + 20 ms pacer  (src/server.js:82-92, 777-787)
\* ------------------------------------------------------------------------

\* The process has not been ended by an uncaught exception.
Running == ~uncaught

\* How many messages of a type a socket history holds.
CountType(msgs, type) == Cardinality({i \in 1..Len(msgs) : msgs[i].type = type})

\* queue.push(...) of frames with the given lengths, in order.
PushFrames(q, hist, src, lens) ==
  q \o [j \in 1..Len(lens) |-> [id |-> Len(hist) + j, src |-> src, len |-> lens[j]]]

\* A pacer that does not look at the socket state; C3 does not hold of it.
PacerIdleIgnoringSocket == ~Truthy(streamSid) \/ Len(queue) = 0

\* A pacer that does not wait for the session id; C4 does not hold of it.
PacerIdleIgnoringSid == Len(queue) = 0 \/ twilioState # "OPEN"

\* A pacer that skips its tick while more than ToneFrames frames are queued;
\* C35 does not hold of it.
PacerIdleOnBacklog ==
  ~Truthy(streamSid) \/ Len(queue) = 0 \/ twilioState # "OPEN"
    \/ Len(queue) > ToneFrames

\* The pacer's early return.
PacerIdle ==
  ~Truthy(streamSid) \/ Len(queue) = 0 \/ twilioState # "OPEN"

\* A pacer that sends the newest frame (pop for shift); C2 does not hold of it.
PacerTakeLast(q) == IF Len(q) = 0 THEN <<>> ELSE <<q[Len(q)]>>

\* What one tick takes off the queue and sends.
PacerTake(q) == IF Len(q) = 0 THEN <<>> ELSE <<Head(q)>>

\* One firing of the setInterval callback.
Pacer ==
  /\ Running
  /\ pacerOn
  /\ IF PacerIdle
       THEN UNCHANGED <<queue, twilioSent>>
       ELSE LET taken == PacerTake(queue)
            IN  /\ queue' = SubSeq(queue, Len(taken) + 1, Len(queue))
                /\ twilioSent' = twilioSent \o
                     [j \in 1..Len(taken) |->
                        [event |-> "media", streamSid |-> streamSid, frame |-> taken[j]]]
  /\ UNCHANGED <<variant, streamSid, pacerOn, twilioState, openaiState, openaiReady,
                 assistantSpeaking, timerHandle, timerPending, frames, decimKeepLen,
                 ulawRemLen, symParam, instParam, greetingSent, pendingLookups,
                 enqueued, openaiSent, nMedia, nDeltas>>
  /\ UNCHANGED <<extVars, pureVars>>

\* The same, for at most MaxSent frames per call.
PacerTick ==
  /\ PacerIdle \/ Len(twilioSent) < MaxSent
  /\ Pacer

\* ------------------------------------------------------------------------
\* Assistant-speaking flag and its safety timer (src/server.js:99-115, 798-813)
\* ------------------------------------------------------------------------

\* A mark that sets the flag and arms no timer; C12 does not hold of it.
MarkWithoutTimer ==
  /\ assistantSpeaking' = TRUE
  /\ UNCHANGED <<timerHandle, timerPending>>

\* markAssistantSpeaking(): set the flag, cancel any earlier timer, arm a new one.
MarkAssistantSpeaking ==
  /\ assistantSpeaking' = TRUE
  /\ timerHandle' = TRUE
  /\ timerPending' = TRUE

\* A clear that leaves the safety timer armed; C10 does not hold of it.
ClearFlagOnly ==
  /\ assistantSpeaking' = FALSE
  /\ UNCHANGED <<timerHandle, timerPending>>

\* clearAssistantSpeaking(): clear the flag, cancel and forget the timer.
ClearAssistantSpeaking ==
  /\ assistantSpeaking' = FALSE
  /\ IF timerHandle
       THEN timerHandle' = FALSE /\ timerPending' = FALSE
       ELSE UNCHANGED <<timerHandle, timerPending>>

\* The setTimeout callback, 800 ms after the last audio delta.
SafetyTimeout ==
  /\ Running
  /\ timerPending
  /\ assistantSpeaking' = FALSE
  /\ timerPending' = FALSE
  /\ UNCHANGED <<variant, streamSid, queue, pacerOn, twilioState, openaiState,
                 openaiReady, timerHandle, frames, decimKeepLen, ulawRemLen,
                 symParam, instParam, greetingSent, pendingLookups, enqueued,
                 twilioSent, openaiSent, nMedia, nDeltas>>
  /\ UNCHANGED <<extVars, pureVars>>

\* ------------------------------------------------------------------------
\* AI transport: messages sent
\* ------------------------------------------------------------------------

Msg(type, info) == [type |-> type, info |-> info]

\* ws.close() as seen in readyState.
CloseSocket(st) == IF st \in {"CONNECTING", "OPEN"} THEN "CLOSING" ELSE st

\* applySessionInstructions(): the session.update it sends, if the socket is open.
ApplySessionInstructionsMsgs(sym, inst) ==
  IF openaiState = "OPEN"
    THEN <<Msg("session.update", <<sym>> \o inst)>>
    ELSE <<>>

\* sendGreetingOnce() without the greetingSent test.
GreetingDueAlways == openaiReady /\ openaiState = "OPEN"

\* sendGreetingOnce(): whether it goes past its early return.
GreetingDue ==
  ~(greetingSent \/ ~openaiReady \/ openaiState # "OPEN")

\* The greeting text chosen from symParam.
\* Values of the "sym" custom parameter; those starting with "asst_".
SymValues == {"", "asst_A"}

StartsWithAsst(sym) == sym \in {"asst_A"}

GreetingKind(sym) ==
  IF sym # "" /\ StartsWithAsst(sym) THEN "assistant"
  ELSE IF sym # "" THEN "named"
  ELSE "plain"

\* sendGreetingOnce(): the response.create it sends.
GreetingMsgs(sym) ==
  IF GreetingDue THEN <<Msg("response.create", <<"greeting", GreetingKind(sym)>>)>>
  ELSE <<>>

\* ------------------------------------------------------------------------
\* Telephony socket handlers (src/server.js:226-298, 991-1077)
\* ------------------------------------------------------------------------

TwilioDelivers == Running /\ twilioState \in {"OPEN", "CLOSING"}

\* streamSid = data.start?.streamSid || data.streamSid || null
SidOf(startSid, topSid) ==
  IF Truthy(startSid) THEN startSid
  ELSE IF Truthy(topSid) THEN topSid
  ELSE Null

\* case "start" of the echo variant.
TwilioStartEcho(startSid, topSid) ==
  /\ variant = "echo"
  /\ TwilioDelivers
  /\ Len(enqueued) + Len(ToneFrameLens) <= MaxFrames
  /\ streamSid' = SidOf(startSid, topSid)
  /\ queue' = PushFrames(queue, enqueued, "tone", ToneFrameLens)
  /\ enqueued' = PushFrames(enqueued, enqueued, "tone", ToneFrameLens)
  /\ UNCHANGED <<variant, pacerOn, twilioState, openaiState, openaiReady,
                 assistantSpeaking, timerHandle, timerPending, frames,
                 decimKeepLen, ulawRemLen, symParam, instParam, greetingSent,
                 pendingLookups, twilioSent, openaiSent, nMedia,
                 nDeltas>>
  /\ UNCHANGED <<extVars, pureVars>>

\* case "start" of the noecho variant.  The async block runs to its first
\* await inside the handler: with an empty sym it never awaits, and applies
\* the instructions and the greeting at once; otherwise a lookup is pending.
StartNoEcho(startSid, topSid, cpSym, cpInst) ==
  /\ variant = "noecho"
  /\ TwilioDelivers
  /\ streamSid' = SidOf(startSid, topSid)
  /\ symParam' = cpSym
  /\ instParam' = cpInst
  /\ IF cpSym # ""
       THEN /\ pendingLookups' = pendingLookups + 1
            /\ UNCHANGED <<openaiSent, greetingSent>>
       ELSE /\ openaiSent' = openaiSent
                               \o ApplySessionInstructionsMsgs(cpSym, cpInst)
                               \o GreetingMsgs(cpSym)
            /\ greetingSent' = (greetingSent \/ GreetingDue)
            /\ UNCHANGED pendingLookups
  /\ queue' = PushFrames(queue, enqueued, "tone", ToneFrameLens)
  /\ enqueued' = PushFrames(enqueued, enqueued, "tone", ToneFrameLens)
  /\ UNCHANGED <<variant, pacerOn, twilioState, openaiState, openaiReady,
                 assistantSpeaking, timerHandle, timerPending, frames,
                 decimKeepLen, ulawRemLen, twilioSent, nMedia,
                 nDeltas>>

\* The same, as a step of the call.
TwilioStartNoEcho(startSid, topSid, cpSym, cpInst) ==
  /\ Len(enqueued) + Len(ToneFrameLens) <= MaxFrames
  /\ StartNoEcho(startSid, topSid, cpSym, cpInst)
  /\ UNCHANGED <<extVars, pureVars>>

\* The continuation of the async block of "start" after its fetch resolved
\* with symExtra (a sequence of words, empty when the fetch failed).
LookupDone(symExtra) ==
  /\ Running
  /\ variant = "noecho"
  /\ pendingLookups > 0
  /\ pendingLookups' = pendingLookups - 1
  /\ LET merged == instParam \o symExtra
         inst   == IF merged # <<>> THEN merged ELSE instParam
     IN  /\ instParam' = inst
         /\ openaiSent' = openaiSent
                            \o ApplySessionInstructionsMsgs(symParam, inst)
                            \o GreetingMsgs(symParam)
  /\ greetingSent' = (greetingSent \/ GreetingDue)
  /\ UNCHANGED <<variant, streamSid, queue, pacerOn, twilioState, openaiState,
                 openaiReady, assistantSpeaking, timerHandle, timerPending,
                 frames, decimKeepLen, ulawRemLen, symParam, enqueued,
                 twilioSent, nMedia, nDeltas>>
  /\ UNCHANGED <<extVars, pureVars>>

\* Forwarding gated on assistantSpeaking as well; the amended C9 does not hold
\* of it.
ForwardAllowedWhenQuiet ==
  openaiReady /\ openaiState = "OPEN" /\ ~assistantSpeaking

\* An echo branch without the assistantSpeaking test; C8 does not hold of it.
EchoAllowedAlways == TRUE

\* The AI socket accepts a send from the media handler.
ForwardAllowed == openaiReady /\ openaiState = "OPEN"

\* The echo branch of the media handler.
EchoAllowed == ~assistantSpeaking

\* frames = (frames + 1) % 1000000
NextFrames(f) == (f + 1) % 1000000

\* if (frames % 50 === 0): commit + response.create
CommitDue(f) == f % 50 = 0

\* case "media" of the echo variant without the length test.
MediaEchoAnyLength(ulawLen) ==
  /\ variant = "echo"
  /\ TwilioDelivers
  /\ nMedia' = nMedia + 1
  /\ EchoAllowed => Len(enqueued) < MaxFrames
  /\ IF ForwardAllowed
       THEN /\ frames' = NextFrames(frames)
            /\ openaiSent' = openaiSent
                 \o <<Msg("input_audio_buffer.append", <<>>)>>
                 \o (IF CommitDue(NextFrames(frames))
                       THEN <<Msg("input_audio_buffer.commit", <<>>),
                              Msg("response.create", <<"audio">>)>>
                       ELSE <<>>)
       ELSE UNCHANGED <<openaiSent, frames>>
  /\ IF EchoAllowed
       THEN /\ queue' = PushFrames(queue, enqueued, "echo", <<ulawLen>>)
            /\ enqueued' = PushFrames(enqueued, enqueued, "echo", <<ulawLen>>)
       ELSE UNCHANGED <<queue, enqueued>>
  /\ UNCHANGED <<variant, streamSid, pacerOn, twilioState, openaiState, openaiReady,
                 assistantSpeaking, timerHandle, timerPending, decimKeepLen,
                 ulawRemLen, symParam, instParam, greetingSent, pendingLookups,
                 twilioSent, nDeltas>>

\* case "media" of the echo variant; ulawLen is the decoded payload length.
MediaEcho(ulawLen) ==
  /\ variant = "echo"
  /\ TwilioDelivers
  /\ nMedia' = IF ulawLen = FRAME THEN nMedia + 1 ELSE nMedia
  /\ IF ulawLen # FRAME
       THEN UNCHANGED <<openaiSent, frames, queue, enqueued>>
       ELSE /\ EchoAllowed => Len(enqueued) < MaxFrames
            /\ IF ForwardAllowed
                 THEN /\ frames' = NextFrames(frames)
                      /\ openaiSent' = openaiSent
                           \o <<Msg("input_audio_buffer.append", <<>>)>>
                           \o (IF CommitDue(NextFrames(frames))
                                 THEN <<Msg("input_audio_buffer.commit", <<>>),
                                        Msg("response.create", <<"audio">>)>>
                                 ELSE <<>>)
                 ELSE UNCHANGED <<openaiSent, frames>>
            /\ IF EchoAllowed
                 THEN /\ queue' = PushFrames(queue, enqueued, "echo", <<ulawLen>>)
                      /\ enqueued' = PushFrames(enqueued, enqueued, "echo", <<ulawLen>>)
                 ELSE UNCHANGED <<queue, enqueued>>
  /\ UNCHANGED <<variant, streamSid, pacerOn, twilioState, openaiState, openaiReady,
                 assistantSpeaking, timerHandle, timerPending, decimKeepLen,
                 ulawRemLen, symParam, instParam, greetingSent, pendingLookups,
                 twilioSent, nDeltas>>

\* The same, as a step of the call.
TwilioMediaEcho(ulawLen) ==
  /\ nMedia < MaxMedia
  /\ MediaEcho(ulawLen)
  /\ UNCHANGED <<extVars, pureVars>>

\* case "media" of the noecho variant.
MediaNoEcho(ulawLen) ==
  /\ variant = "noecho"
  /\ TwilioDelivers
  /\ nMedia' = IF ulawLen = FRAME THEN nMedia + 1 ELSE nMedia
  /\ IF ulawLen = FRAME /\ ForwardAllowed
       THEN openaiSent' = openaiSent \o <<Msg("input_audio_buffer.append", <<>>)>>
       ELSE UNCHANGED openaiSent
  /\ UNCHANGED <<variant, streamSid, queue, pacerOn, twilioState, openaiState,
                 openaiReady, assistantSpeaking, timerHandle, timerPending, frames,
                 decimKeepLen, ulawRemLen, symParam, instParam, greetingSent,
                 pendingLookups, enqueued, twilioSent, nDeltas>>

\* The same, as a step of the call.
TwilioMediaNoEcho(ulawLen) ==
  /\ nMedia < MaxMedia
  /\ MediaNoEcho(ulawLen)
  /\ UNCHANGED <<extVars, pureVars>>

\* case "stop" closing the telephony socket only.
StopWithoutAiClose ==
  /\ TwilioDelivers
  /\ twilioState' = CloseSocket(twilioState)
  /\ UNCHANGED <<variant, streamSid, queue, pacerOn, openaiState, openaiReady,
                 assistantSpeaking, timerHandle, timerPending, frames, decimKeepLen,
                 ulawRemLen, symParam, instParam, greetingSent, pendingLookups,
                 enqueued, twilioSent, openaiSent, nMedia, nDeltas>>
  /\ UNCHANGED <<extVars, pureVars>>

\* case "stop": close both sockets.
TwilioStop ==
  /\ TwilioDelivers
  /\ openaiState' = CloseSocket(openaiState)
  /\ twilioState' = CloseSocket(twilioState)
  /\ UNCHANGED <<variant, streamSid, queue, pacerOn, openaiReady, assistantSpeaking,
                 timerHandle, timerPending, frames, decimKeepLen, ulawRemLen,
                 symParam, instParam, greetingSent, pendingLookups, enqueued,
                 twilioSent, openaiSent, nMedia, nDeltas>>
  /\ UNCHANGED <<extVars, pureVars>>

\* A text that is not JSON, handled as a stop event would be.
BadJsonAsStop ==
  /\ TwilioDelivers
  /\ twilioState' = CloseSocket(twilioState)
  /\ UNCHANGED <<variant, streamSid, queue, pacerOn, openaiState,
                 openaiReady, assistantSpeaking, timerHandle, timerPending, frames,
                 decimKeepLen, ulawRemLen, symParam, instParam, greetingSent,
                 pendingLookups, enqueued, twilioSent, openaiSent, nMedia, nDeltas>>

\* A telephony message that is not JSON: logged and dropped.
BadJson ==
  /\ TwilioDelivers
  /\ UNCHANGED <<variant, streamSid, queue, pacerOn, twilioState, openaiState,
                 openaiReady, assistantSpeaking, timerHandle, timerPending, frames,
                 decimKeepLen, ulawRemLen, symParam, instParam, greetingSent,
                 pendingLookups, enqueued, twilioSent, openaiSent, nMedia, nDeltas>>

\* The same, as a step of the call.
TwilioBadJson ==
  /\ BadJson
  /\ UNCHANGED <<extVars, pureVars>>

\* twilioWs.on("close"): stop the pacer, close the AI socket.
TwilioClosed ==
  /\ Running
  /\ twilioState # "CLOSED"
  /\ twilioState' = "CLOSED"
  /\ pacerOn' = FALSE
  /\ openaiState' = CloseSocket(openaiState)
  /\ UNCHANGED <<variant, streamSid, queue, openaiReady, assistantSpeaking,
                 timerHandle, timerPending, frames, decimKeepLen, ulawRemLen,
                 symParam, instParam, greetingSent, pendingLookups, enqueued,
                 twilioSent, openaiSent, nMedia, nDeltas>>
  /\ UNCHANGED <<extVars, pureVars>>

\* ------------------------------------------------------------------------
\* AI socket handlers (src/server.js:123-216, 906-983)
\* ------------------------------------------------------------------------

\* The AI socket emits messages while it is open, and after close() was
\* called on an open socket until the closing handshake ends; a socket closed
\* while still connecting (openaiReady never set) emits none.
AiDelivers ==
  /\ Running
  /\ openaiState = "OPEN" \/ (openaiState = "CLOSING" /\ openaiReady)

\* openaiWs.on("open")
OpenaiOpen ==
  /\ Running
  /\ openaiState = "CONNECTING"
  /\ openaiState' = "OPEN"
  /\ openaiReady' = TRUE
  /\ openaiSent' = openaiSent \o
       (IF variant = "echo"
          THEN <<Msg("session.update", <<"config">>),
                 Msg("response.create", <<"greeting", "fixed">>)>>
          ELSE <<Msg("session.update", <<"config">>)>>)
  /\ UNCHANGED <<variant, streamSid, queue, pacerOn, twilioState, assistantSpeaking,
                 timerHandle, timerPending, frames, decimKeepLen, ulawRemLen,
                 symParam, instParam, greetingSent, pendingLookups, enqueued,
                 twilioSent, nMedia, nDeltas>>
  /\ UNCHANGED <<extVars, pureVars>>

\* The peer starts closing the AI socket: readyState leaves OPEN before the
\* "close" event is delivered.
OpenaiClosing ==
  /\ Running
  /\ openaiState = "OPEN"
  /\ openaiState' = "CLOSING"
  /\ UNCHANGED <<variant, streamSid, queue, pacerOn, twilioState, openaiReady,
                 assistantSpeaking, timerHandle, timerPending, frames, decimKeepLen,
                 ulawRemLen, symParam, instParam, greetingSent, pendingLookups,
                 enqueued, twilioSent, openaiSent, nMedia,
                 nDeltas>>
  /\ UNCHANGED <<extVars, pureVars>>

\* The AI socket's close event, leaving openaiReady as it was.
AiClosedStillReady ==
  /\ Running
  /\ openaiState # "CLOSED"
  /\ openaiState' = "CLOSED"
  /\ UNCHANGED <<variant, streamSid, queue, pacerOn, twilioState, openaiReady,
                 assistantSpeaking, timerHandle, timerPending, frames, decimKeepLen,
                 ulawRemLen, symParam, instParam, greetingSent, pendingLookups,
                 enqueued, twilioSent, openaiSent, nMedia, nDeltas>>

\* openaiWs.on("close"), also after a failed connect.
AiClosed ==
  /\ Running
  /\ openaiState # "CLOSED"
  /\ openaiState' = "CLOSED"
  /\ openaiReady' = FALSE
  /\ UNCHANGED <<variant, streamSid, queue, pacerOn, twilioState, assistantSpeaking,
                 timerHandle, timerPending, frames, decimKeepLen, ulawRemLen,
                 symParam, instParam, greetingSent, pendingLookups, enqueued,
                 twilioSent, openaiSent, nMedia, nDeltas>>

\* The same, as a step of the call.
OpenaiClosed ==
  /\ AiClosed
  /\ UNCHANGED <<extVars, pureVars>>

DeltaTypes == {"response.output_audio.delta", "response.audio.delta", "output_audio.delta"}

EndTypes == {"response.completed", "response.finished",
             "response.output_audio.done", "response.done"}

OtherTypes == {"response.audio.done", "session.updated"}

\* The audio delta messages tried: event type, the field that carries the
\* base64 audio, and its decoded byte length (0: the field is empty).
DeltaMsgs ==
  { <<"response.output_audio.delta", "delta", 961>>,
    <<"response.audio.delta",        "delta", 1921>>,
    <<"response.audio.delta",        "audio", 3>>,
    <<"output_audio.delta",          "audio", 1201>>,
    <<"response.output_audio.delta", "audio", 961>>,
    <<"output_audio.delta",          "delta", 1921>>,
    <<"response.audio.delta",        "delta", 0>> }

\* Decoded payload lengths of the telephony audio frames tried.
MediaLens == {0, 160, 161}

\* Which of the three delta branches, if any, takes the message: carrier is the
\* field ("delta" or "audio") that holds the base64 audio.
DeltaAccepted(type, carrier, bytes) ==
  /\ bytes > 0
  /\ \/ type = "response.output_audio.delta" /\ carrier = "delta"
     \/ type = "response.audio.delta"
     \/ type = "output_audio.delta" /\ carrier = "audio"

\* new Int16Array(raw.buffer, raw.byteOffset, raw.byteLength / 2): the length
\* argument is truncated to an integer by the constructor.
Int16ViewLenNoFloor(byteLength) == byteLength \div 2

\* An audio delta in the echo variant: decimate by picking every 3rd sample,
\* encode, push the complete frames.
DeltaEcho(type, carrier, bytes) ==
  /\ variant = "echo"
  /\ AiDelivers
  /\ nDeltas' = nDeltas + 1
  /\ DeltaAccepted(type, carrier, bytes)
  /\ MarkAssistantSpeaking
  /\ LET ulawLen == Int16ViewLen(bytes) \div 3
     IN  /\ Len(enqueued) + Len(CutFrameLens(ulawLen)) <= MaxFrames
         /\ queue' = PushFrames(queue, enqueued, "ai", CutFrameLens(ulawLen))
         /\ enqueued' = PushFrames(enqueued, enqueued, "ai", CutFrameLens(ulawLen))
  /\ UNCHANGED <<variant, streamSid, pacerOn, twilioState, openaiState, openaiReady,
                 frames, decimKeepLen, ulawRemLen, symParam, instParam, greetingSent,
                 pendingLookups, twilioSent, openaiSent, nMedia>>

\* The same, as a step of the call.
AiAudioDeltaEcho(type, carrier, bytes) ==
  /\ nDeltas < MaxDeltas
  /\ DeltaEcho(type, carrier, bytes)
  /\ UNCHANGED <<extVars, pureVars>>

\* An audio delta in the noecho variant: FIR decimator, then the framer.
DeltaNoEcho(type, carrier, bytes) ==
  /\ variant = "noecho"
  /\ AiDelivers
  /\ nDeltas' = nDeltas + 1
  /\ DeltaAccepted(type, carrier, bytes)
  /\ MarkAssistantSpeaking
  /\ LET n        == Int16ViewLenNoFloor(bytes)
         outCount == DecimOutCount(decimKeepLen, n)
     IN  /\ Len(enqueued) + Len(FlushFrameLens(ulawRemLen, outCount)) <= MaxFrames
         /\ decimKeepLen' = DecimKeepLen(decimKeepLen, n)
         /\ IF outCount > 0
              THEN /\ queue' = PushFrames(queue, enqueued, "ai",
                                          FlushFrameLens(ulawRemLen, outCount))
                   /\ enqueued' = PushFrames(enqueued, enqueued, "ai",
                                             FlushFrameLens(ulawRemLen, outCount))
                   /\ ulawRemLen' = FlushRemLen(ulawRemLen, outCount)
              ELSE UNCHANGED <<queue, enqueued, ulawRemLen>>
  /\ UNCHANGED <<variant, streamSid, pacerOn, twilioState, openaiState, openaiReady,
                 frames, symParam, instParam, greetingSent, pendingLookups,
                 twilioSent, openaiSent, nMedia>>

\* The same, as a step of the call.
AiAudioDeltaNoEcho(type, carrier, bytes) ==
  /\ nDeltas < MaxDeltas
  /\ DeltaNoEcho(type, carrier, bytes)
  /\ UNCHANGED <<extVars, pureVars>>

\* An end-of-response event.
ResponseEnd(type) ==
  /\ AiDelivers
  /\ type \in EndTypes
  /\ ClearAssistantSpeaking
  /\ UNCHANGED <<variant, streamSid, queue, pacerOn, twilioState, openaiState,
                 openaiReady, frames, decimKeepLen, ulawRemLen, symParam, instParam,
                 greetingSent, pendingLookups, enqueued, twilioSent, openaiSent,
                 nMedia, nDeltas>>

\* The same, as a step of the call.
AiResponseEnd(type) ==
  /\ ResponseEnd(type)
  /\ UNCHANGED <<extVars, pureVars>>

\* Any other AI message: another event type or a frame that is not JSON.
\* It changes nothing.
AiOtherMessage(type) ==
  /\ AiDelivers
  /\ type \in OtherTypes \cup {"<not json>"}
  /\ UNCHANGED <<variant, streamSid, queue, pacerOn, twilioState, openaiState,
                 openaiReady, assistantSpeaking, timerHandle, timerPending, frames,
                 decimKeepLen, ulawRemLen, symParam, instParam, greetingSent,
                 pendingLookups, enqueued, twilioSent, openaiSent, nMedia, nDeltas>>
  /\ UNCHANGED <<extVars, pureVars>>

\* A delta message that none of the three branches accepts: nothing happens.
AiRejectedDelta(type, carrier, bytes) ==
  /\ AiDelivers
  /\ type \in DeltaTypes
  /\ ~DeltaAccepted(type, carrier, bytes)
  /\ UNCHANGED <<variant, streamSid, queue, pacerOn, twilioState, openaiState,
                 openaiReady, assistantSpeaking, timerHandle, timerPending, frames,
                 decimKeepLen, ulawRemLen, symParam, instParam, greetingSent,
                 pendingLookups, enqueued, twilioSent, openaiSent, nMedia, nDeltas>>
  /\ UNCHANGED <<extVars, pureVars>>

\* ------------------------------------------------------------------------
\* The call as a state machine
\* ------------------------------------------------------------------------

SidInputs == {Absent, "MZ1"}

TopSidInputs == {Absent, "MZ2"}

InstInputs == {<<"inst">>}

ExtraInputs == {<<>>, <<"extra">>}

Next ==
  \/ PacerTick
  \/ SafetyTimeout
  \/ \E a \in SidInputs, b \in TopSidInputs : TwilioStartEcho(a, b)
  \/ \E a \in SidInputs, b \in TopSidInputs, s \in SymValues, i \in InstInputs :
       TwilioStartNoEcho(a, b, s, i)
  \/ \E x \in ExtraInputs : LookupDone(x)
  \/ \E n \in MediaLens : TwilioMediaEcho(n)
  \/ \E n \in MediaLens : TwilioMediaNoEcho(n)
  \/ TwilioStop
  \/ TwilioBadJson
  \/ TwilioClosed
  \/ OpenaiOpen
  \/ OpenaiClosing
  \/ OpenaiClosed
  \/ \E m \in DeltaMsgs : AiAudioDeltaEcho(m[1], m[2], m[3])
  \/ \E m \in DeltaMsgs : AiAudioDeltaNoEcho(m[1], m[2], m[3])
  \/ \E t \in EndTypes : AiResponseEnd(t)
  \/ \E t \in OtherTypes \cup {"<not json>"} : AiOtherMessage(t)
  \/ \E m \in DeltaMsgs : AiRejectedDelta(m[1], m[2], m[3])

Spec == Init /\ [][Next]_vars

\* The call without its session-start event (which only binds the session id
\* and enqueues the tone, and touches nothing the turn flag or its timer
\* reads), with the timer callback scheduled fairly: a pending timeout that is
\* not cleared does run.
TimerNext ==
  \/ PacerTick
  \/ SafetyTimeout
  \/ \E n \in MediaLens : TwilioMediaEcho(n)
  \/ \E n \in MediaLens : TwilioMediaNoEcho(n)
  \/ TwilioStop
  \/ TwilioBadJson
  \/ TwilioClosed
  \/ OpenaiOpen
  \/ OpenaiClosing
  \/ OpenaiClosed
  \/ \E m \in DeltaMsgs : AiAudioDeltaEcho(m[1], m[2], m[3])
  \/ \E m \in DeltaMsgs : AiAudioDeltaNoEcho(m[1], m[2], m[3])
  \/ \E t \in EndTypes : AiResponseEnd(t)
  \/ \E t \in OtherTypes \cup {"<not json>"} : AiOtherMessage(t)
  \/ \E m \in DeltaMsgs : AiRejectedDelta(m[1], m[2], m[3])

SpecTimer == Init /\ [][TimerNext]_vars /\ WF_vars(SafetyTimeout)

\* ------------------------------------------------------------------------
\* The codec on its own: decode a byte, encode the sample back
\* ------------------------------------------------------------------------

Bytes == 0..255

CodecInit ==
  /\ CallInit("echo")
  /\ ExtIdle
  /\ codecIn \in {<<b>> : b \in Bytes}
  /\ codecPcm = <<>>
  /\ codecOut = <<>>
  /\ ulawRemainder = <<>>
  /\ framerQueue = <<>>
  /\ framerInput = <<>>
  /\ aiPos = 0
  /\ aiQueue = <<>>
  /\ DspIdle
  /\ ToolIdle

CodecDecode ==
  /\ codecPcm = <<>>
  /\ codecPcm' = muLawDecodeToPcm16(codecIn)
  /\ UNCHANGED <<codecIn, codecOut, ulawRemainder, framerQueue, framerInput,
                 aiPos, aiQueue>>
  /\ UNCHANGED <<dspVars, toolVars>>
  /\ UNCHANGED <<callVars, extVars>>

CodecEncode ==
  /\ codecPcm # <<>>
  /\ codecOut = <<>>
  /\ codecOut' = pcm16ToMuLaw(codecPcm)
  /\ UNCHANGED <<codecIn, codecPcm, ulawRemainder, framerQueue, framerInput,
                 aiPos, aiQueue>>
  /\ UNCHANGED <<dspVars, toolVars>>
  /\ UNCHANGED <<callVars, extVars>>

CodecNext == CodecDecode \/ CodecEncode

SpecCodec == CodecInit /\ [][CodecNext]_vars

\* ------------------------------------------------------------------------
\* The mu-law framer on its own (src/server.js:749-763)
\* ------------------------------------------------------------------------

\* Bytes given to the framer per run.
MaxFramerBytes == 400

\* Chunk lengths tried.
ChunkLens == {0, 1, 79, 159, 160, 161, 320}

\* The byte at position p (from 1) of the stream fed to the framer: every
\* window of 256 positions holds 256 different values.
StreamByte(p) == (p * 37) % 256

FramerCall(n) ==
  /\ Len(framerInput) + n <= MaxFramerBytes
  /\ LET chunk == [i \in 1..n |-> StreamByte(Len(framerInput) + i)]
         r     == flushUlawFrames(ulawRemainder, chunk)
     IN  /\ framerQueue' = framerQueue \o r.frames
         /\ ulawRemainder' = r.remainder
         /\ framerInput' = framerInput \o chunk
  /\ UNCHANGED <<codecIn, codecPcm, codecOut, aiPos, aiQueue>>
  /\ UNCHANGED <<dspVars, toolVars>>
  /\ UNCHANGED <<callVars, extVars>>

FramerNext == \E n \in ChunkLens : FramerCall(n)

\* A fresh framer closure.
FramerInit == CallInit("noecho") /\ ExtIdle /\ PureIdle

SpecFramer == FramerInit /\ [][FramerNext]_vars

\* ------------------------------------------------------------------------
\* The delta branch of the echo variant on its own (src/server.js:170-178),
\* fed an audio stream cut into deltas
\* ------------------------------------------------------------------------

\* Samples of AI audio delivered per run.
MaxAiSamples == 1450

\* Delta lengths tried, in 24 kHz samples (two bytes each).
DeltaSamples == {240, 479, 480, 481, 960}

\* Sample p (from 1) of the AI's 24 kHz stream: a ramp over the int16 range.
Pcm24(p) == ((p * 523) % 65536) - 32768

\* What the branch pushes for one delta holding pcm.
AiDeltaFrames(pcm) == CutFrames(pcm16ToMuLaw(downsampleIntFactor(pcm, 3)))

AiPathDelta(n) ==
  /\ aiPos + n <= MaxAiSamples
  /\ LET pcm == [k \in 1..Int16ViewLen(2 * n) |-> Pcm24(aiPos + k)]
     IN  aiQueue' = aiQueue \o AiDeltaFrames(pcm)
  /\ aiPos' = aiPos + n
  /\ UNCHANGED <<codecIn, codecPcm, codecOut, ulawRemainder, framerQueue,
                 framerInput>>
  /\ UNCHANGED <<dspVars, toolVars>>
  /\ UNCHANGED <<callVars, extVars>>

AiPathNext == \E n \in DeltaSamples : AiPathDelta(n)

\* A fresh connection of the echo variant.
AiPathInit == CallInit("echo") /\ ExtIdle /\ PureIdle

SpecAiPath == AiPathInit /\ [][AiPathNext]_vars

\* ========================================================================
\* The variant with per-call instructions and a deferred session.update
\* (src/server.js:305-642)
\* ========================================================================

\* DEFAULT_PROMPTS[pendingAssistantId] is set.
HasDefaultPrompt(sym) == sym = "asst_known"

\* The start events tried: start.streamSid, streamSid, cp.sym, cp.inst.
DeferredStarts ==
  { <<"MZ1",  Absent, "",           "inst">>,
    <<Absent, "MZ2",  "asst_known", "">>,
    <<"MZ1",  Absent, "asst_A",     "">>,
    <<Absent, Absent, "",           "">> }

\* What fetchAssistantInstructions resolves to: "" on any failure.
FetchResults == {"", "fetched"}

\* applySessionUpdateIfReady() without the sessionApplied test.
SessionUpdateDueAlways(ready, started) == ready /\ started

\* applySessionUpdateIfReady(): the messages it sends, given the flags as they
\* are when it is called.
SessionUpdateDue(ready, started) == ready /\ started /\ ~sessionApplied

SessionUpdateMsgs(ready, started, instructions) ==
  IF SessionUpdateDue(ready, started)
    THEN <<Msg("session.update", <<"config", instructions>>)>>
    ELSE <<>>

\* The rest of handleStartEvent once pendingInstructions is known: set
\* twilioStarted, apply the session update, enqueue the tone.  When the update
\* is due and the AI socket has left OPEN, openaiWs.send either does nothing or
\* throws (the ws release decides); a throw ends handleStartEvent there and is
\* logged by its .catch.
DeferredStartTail(instructions, sendThrows) ==
  /\ pendingInstructions' = instructions
  /\ twilioStarted' = TRUE
  /\ IF SessionUpdateDue(openaiReady, TRUE) /\ openaiState # "OPEN"
       THEN IF sendThrows
              THEN UNCHANGED <<sessionApplied, openaiSent, queue, enqueued>>
              ELSE /\ sessionApplied' = TRUE
                   /\ UNCHANGED openaiSent
                   /\ queue' = PushFrames(queue, enqueued, "tone", ToneFrameLens)
                   /\ enqueued' = PushFrames(enqueued, enqueued, "tone", ToneFrameLens)
       ELSE /\ ~sendThrows
            /\ sessionApplied' = (sessionApplied \/ SessionUpdateDue(openaiReady, TRUE))
            /\ openaiSent' = openaiSent
                               \o SessionUpdateMsgs(openaiReady, TRUE, instructions)
            /\ queue' = PushFrames(queue, enqueued, "tone", ToneFrameLens)
            /\ enqueued' = PushFrames(enqueued, enqueued, "tone", ToneFrameLens)

\* case "start": handleStartEvent(data) up to its await, or to its end when
\* it does not await.
handleStartEvent(startSid, topSid, sym, inst, sendThrows) ==
  /\ variant = "deferred"
  /\ TwilioDelivers
  /\ streamSid' = SidOf(startSid, topSid)
  /\ pendingAssistantId' = sym
  /\ IF inst = "" /\ sym # "" /\ ~HasDefaultPrompt(sym)
       THEN /\ ~sendThrows
            /\ startAwaiting' = startAwaiting + 1
            /\ UNCHANGED <<pendingInstructions, twilioStarted, sessionApplied,
                           openaiSent, queue, enqueued>>
       ELSE /\ DeferredStartTail(IF inst # "" THEN inst
                                 ELSE IF sym # "" THEN "default"
                                 ELSE "generic", sendThrows)
            /\ UNCHANGED startAwaiting
  /\ UNCHANGED <<variant, pacerOn, twilioState, openaiState, openaiReady,
                 assistantSpeaking, timerHandle, timerPending, frames,
                 decimKeepLen, ulawRemLen, symParam, instParam, greetingSent,
                 pendingLookups, twilioSent, nMedia, nDeltas>>
  /\ UNCHANGED <<connectPhase, uncaught, offered, handshake, selected,
                 lastAiEvent, scriptPhase, dropLog,
                 sessions, decimators, framers, lastCall, timersArmed>>
  /\ UNCHANGED pureVars

\* The same, as a step of the call: the tone of every start under way must
\* fit the frame bound.
DeferredStart(startSid, topSid, sym, inst, sendThrows) ==
  /\ Len(enqueued) + (startAwaiting + 1) * Len(ToneFrameLens) <= MaxFrames
  /\ handleStartEvent(startSid, topSid, sym, inst, sendThrows)

\* handleStartEvent resumes after fetchAssistantInstructions resolved.
DeferredStartResume(fetched, sendThrows) ==
  /\ Running
  /\ variant = "deferred"
  /\ startAwaiting > 0
  /\ startAwaiting' = startAwaiting - 1
  /\ DeferredStartTail(IF fetched # "" THEN fetched ELSE "generic", sendThrows)
  /\ UNCHANGED <<variant, streamSid, pacerOn, twilioState, openaiState, openaiReady,
                 assistantSpeaking, timerHandle, timerPending, frames,
                 decimKeepLen, ulawRemLen, symParam, instParam, greetingSent,
                 pendingLookups, twilioSent, nMedia, nDeltas>>
  /\ UNCHANGED <<pendingAssistantId, connectPhase, uncaught, offered, handshake,
                 selected, lastAiEvent, scriptPhase, dropLog,
                 sessions, decimators, framers, lastCall, timersArmed>>
  /\ UNCHANGED pureVars

\* openaiWs.on("open")
DeferredOpen ==
  /\ Running
  /\ variant = "deferred"
  /\ openaiState = "CONNECTING"
  /\ openaiState' = "OPEN"
  /\ openaiReady' = TRUE
  /\ openaiSent' = openaiSent
                     \o SessionUpdateMsgs(TRUE, twilioStarted, pendingInstructions)
  /\ sessionApplied' = (sessionApplied \/ SessionUpdateDue(TRUE, twilioStarted))
  /\ UNCHANGED <<variant, streamSid, queue, pacerOn, twilioState, assistantSpeaking,
                 timerHandle, timerPending, frames, decimKeepLen, ulawRemLen,
                 symParam, instParam, greetingSent, pendingLookups, enqueued,
                 twilioSent, nMedia, nDeltas>>
  /\ UNCHANGED <<twilioStarted, pendingInstructions, pendingAssistantId,
                 startAwaiting, connectPhase, uncaught, offered, handshake,
                 selected, lastAiEvent, scriptPhase, dropLog,
                 sessions, decimators, framers, lastCall, timersArmed>>
  /\ UNCHANGED pureVars

\* case "media"
DeferredMedia(ulawLen) ==
  /\ variant = "deferred"
  /\ TwilioDelivers
  /\ nMedia < MaxMedia
  /\ nMedia' = IF ulawLen = FRAME THEN nMedia + 1 ELSE nMedia
  /\ IF ulawLen # FRAME
       THEN UNCHANGED <<openaiSent, queue, enqueued>>
       ELSE /\ EchoAllowed => Len(enqueued) < MaxFrames
            /\ IF ForwardAllowed
                 THEN openaiSent' = openaiSent
                                      \o <<Msg("input_audio_buffer.append", <<>>)>>
                 ELSE UNCHANGED openaiSent
            /\ IF EchoAllowed
                 THEN /\ queue' = PushFrames(queue, enqueued, "echo", <<ulawLen>>)
                      /\ enqueued' = PushFrames(enqueued, enqueued, "echo", <<ulawLen>>)
                 ELSE UNCHANGED <<queue, enqueued>>
  /\ UNCHANGED <<variant, streamSid, pacerOn, twilioState, openaiState, openaiReady,
                 assistantSpeaking, timerHandle, timerPending, frames, decimKeepLen,
                 ulawRemLen, symParam, instParam, greetingSent, pendingLookups,
                 twilioSent, nDeltas>>
  /\ UNCHANGED <<extVars, pureVars>>

\* const b64 = ...: which field, if any, carries the audio of the message.
DeferredDeltaAccepted(type, carrier, bytes) ==
  /\ bytes > 0
  /\ \/ type = "response.output_audio.delta" /\ carrier = "delta"
     \/ type = "response.audio.delta" /\ carrier = "delta"
     \/ type = "output_audio.delta" /\ carrier = "audio"

\* if (b64) { ... }: set the flag, decimate, encode, push the whole frames.
DeferredAudioDelta(type, carrier, bytes) ==
  /\ variant = "deferred"
  /\ AiDelivers
  /\ nDeltas < MaxDeltas
  /\ nDeltas' = nDeltas + 1
  /\ DeferredDeltaAccepted(type, carrier, bytes)
  /\ assistantSpeaking' = TRUE
  /\ lastAiEvent' = "delta"
  /\ LET ulawLen == Int16ViewLen(bytes) \div 3
     IN  /\ Len(enqueued) + Len(CutFrameLens(ulawLen)) <= MaxFrames
         /\ queue' = PushFrames(queue, enqueued, "ai", CutFrameLens(ulawLen))
         /\ enqueued' = PushFrames(enqueued, enqueued, "ai", CutFrameLens(ulawLen))
  /\ UNCHANGED <<variant, streamSid, pacerOn, twilioState, openaiState, openaiReady,
                 timerHandle, timerPending, frames, decimKeepLen, ulawRemLen,
                 symParam, instParam, greetingSent, pendingLookups, twilioSent,
                 openaiSent, nMedia>>
  /\ UNCHANGED <<twilioStarted, sessionApplied, pendingInstructions,
                 pendingAssistantId, startAwaiting, connectPhase, uncaught,
                 offered, handshake, selected, scriptPhase, dropLog,
                 sessions, decimators, framers, lastCall, timersArmed>>
  /\ UNCHANGED pureVars

DeferredEndTypes == {"response.completed", "response.audio.done", "response.done"}

\* An end-of-response event: "Assistant finished speaking" is logged.
DeferredResponseEnd(type) ==
  /\ variant = "deferred"
  /\ AiDelivers
  /\ type \in DeferredEndTypes
  /\ lastAiEvent' = "end"
  /\ UNCHANGED callVars
  /\ UNCHANGED <<twilioStarted, sessionApplied, pendingInstructions,
                 pendingAssistantId, startAwaiting, connectPhase, uncaught,
                 offered, handshake, selected, scriptPhase, dropLog,
                 sessions, decimators, framers, lastCall, timersArmed>>
  /\ UNCHANGED pureVars

\* session.updated events handled per call.
MaxNudges == 1

\* "session.updated": ask for a first response.  Outside OPEN, openaiWs.send
\* either does nothing or throws (the ws release decides), and nothing in the
\* message handler catches it.
DeferredSessionUpdated(sendThrows) ==
  /\ variant = "deferred"
  /\ AiDelivers
  /\ CountType(openaiSent, "response.create") < MaxNudges
  /\ IF openaiState = "OPEN"
       THEN /\ ~sendThrows
            /\ openaiSent' = openaiSent \o <<Msg("response.create", <<"nudge">>)>>
            /\ UNCHANGED uncaught
       ELSE /\ uncaught' = sendThrows
            /\ UNCHANGED openaiSent
  /\ UNCHANGED <<variant, streamSid, queue, pacerOn, twilioState, openaiState,
                 openaiReady, assistantSpeaking, timerHandle, timerPending, frames,
                 decimKeepLen, ulawRemLen, symParam, instParam, greetingSent,
                 pendingLookups, enqueued, twilioSent, nMedia, nDeltas>>
  /\ UNCHANGED <<twilioStarted, sessionApplied, pendingInstructions,
                 pendingAssistantId, startAwaiting, connectPhase, offered,
                 handshake, selected, lastAiEvent, scriptPhase, dropLog,
                 sessions, decimators, framers, lastCall, timersArmed>>
  /\ UNCHANGED pureVars

DeferredInit == CallInit("deferred") /\ ExtIdle /\ PureIdle

DeferredNext ==
  \/ PacerTick
  \/ \E d \in DeferredStarts, t \in BOOLEAN :
       DeferredStart(d[1], d[2], d[3], d[4], t)
  \/ \E f \in FetchResults, t \in BOOLEAN : DeferredStartResume(f, t)
  \/ DeferredOpen
  \/ \E n \in MediaLens : DeferredMedia(n)
  \/ \E m \in DeltaMsgs : DeferredAudioDelta(m[1], m[2], m[3])
  \/ \E t \in DeferredEndTypes : DeferredResponseEnd(t)
  \/ \E t \in BOOLEAN : DeferredSessionUpdated(t)
  \/ TwilioStop
  \/ TwilioClosed
  \/ OpenaiClosing
  \/ OpenaiClosed

SpecDeferred == DeferredInit /\ [][DeferredNext]_vars

\* ========================================================================
\* One second of caller audio in the echo variant: the forced commit
\* (src/server.js:266-272)
\* ========================================================================

\* Caller frames handled in the scenario: the commit falls on the 50th.
MaxCommitFrames == 50

CommitInit == CallInit("echo") /\ ExtIdle /\ PureIdle

\* A well-formed caller frame.
CommitFrame ==
  /\ nMedia < MaxCommitFrames
  /\ MediaEcho(FRAME)
  /\ UNCHANGED <<extVars, pureVars>>

\* The audio delta of the scenario: 480 samples, one frame.
CommitDelta == AiAudioDeltaEcho("response.output_audio.delta", "delta", 961)

CommitNext ==
  \/ OpenaiOpen
  \/ CommitFrame
  \/ CommitDelta

SpecCommit == CommitInit /\ [][CommitNext]_vars

\* ------------------------------------------------------------------------
\* A scripted run of caller frames, each marked as speech (high energy) or
\* silence (low energy); the assistant never speaks.
\* ------------------------------------------------------------------------

MaxScriptFrames == 50

Energies == {"high", "low"}

\* Where the script stands: "none" before any speech, "speech", "silence"
\* after the speech, "other" once speech resumes.
NextPhase(phase, energy) ==
  CASE phase = "none"    -> IF energy = "high" THEN "speech" ELSE "none"
    [] phase = "speech"  -> IF energy = "high" THEN "speech" ELSE "silence"
    [] phase = "silence" -> IF energy = "high" THEN "other" ELSE "silence"
    [] OTHER             -> "other"

\* A well-formed caller frame of the script.  The handler never looks at the
\* samples, so the energy only advances the script.
ScriptFrame(energy) ==
  /\ nMedia < MaxScriptFrames
  /\ MediaEcho(FRAME)
  /\ scriptPhase' = NextPhase(scriptPhase, energy)
  /\ UNCHANGED <<twilioStarted, sessionApplied, pendingInstructions,
                 pendingAssistantId, startAwaiting, connectPhase, uncaught,
                 offered, handshake, selected, lastAiEvent, dropLog,
                 sessions, decimators, framers, lastCall, timersArmed>>
  /\ UNCHANGED pureVars

ScriptNext ==
  \/ OpenaiOpen
  \/ \E e \in Energies : ScriptFrame(e)

SpecScript == CommitInit /\ [][ScriptNext]_vars

\* ========================================================================
\* The telephony handshake (src/server.js:71-77, 766-772)
\* ========================================================================

\* Sub-protocol lists a client may offer, in the order of its header.
Offers ==
  { <<>>, <<"audio">>, <<"chat">>, <<"audio", "chat">>, <<"chat", "audio">>,
    <<"chat", "sip">> }

\* What the installed ws release hands to handleProtocols: an array of names,
\* or a Set of names (which has no includes method).
Releases == {"array", "set"}

Offers_Has(protos, name) == \E i \in 1..Len(protos) : protos[i] = name

\* handleProtocols: (protocols) => (protocols.includes("audio") ? "audio" : false),
\* with "" standing for false.
handleProtocols(protos) == IF Offers_Has(protos, "audio") THEN "audio" ELSE ""

\* Before the upgrade request: no socket object, no handler has run.  The call
\* variables hold the values the connection handler will start from.
HandshakeInit ==
  /\ \E v \in Variants : CallInit(v)
  /\ twilioStarted = FALSE
  /\ sessionApplied = FALSE
  /\ pendingInstructions = ""
  /\ pendingAssistantId = ""
  /\ startAwaiting = 0
  /\ connectPhase = "ready"
  /\ uncaught = FALSE
  /\ offered = <<>>
  /\ handshake = "pending"
  /\ selected = ""
  /\ lastAiEvent = "none"
  /\ scriptPhase = "none"
  /\ dropLog = <<>>
  /\ HouseIdle
  /\ PureIdle

\* The upgrade request on /stream.  handleProtocols runs only when the client
\* offered at least one protocol; a false result leaves the response without
\* a Sec-WebSocket-Protocol header and the upgrade still completes, so
\* "connection" fires.  Under a release that passes a Set the call to
\* includes throws inside the upgrade listener.
Upgrade(protos, release) ==
  /\ Running
  /\ handshake = "pending"
  /\ offered' = protos
  /\ IF Len(protos) = 0
       THEN /\ handshake' = "accepted"
            /\ selected' = ""
            /\ UNCHANGED uncaught
       ELSE IF release = "set"
              THEN /\ handshake' = "threw"
                   /\ selected' = ""
                   /\ uncaught' = TRUE
              ELSE /\ handshake' = "accepted"
                   /\ selected' = handleProtocols(protos)
                   /\ UNCHANGED uncaught
  /\ UNCHANGED <<twilioStarted, sessionApplied, pendingInstructions,
                 pendingAssistantId, startAwaiting, connectPhase, lastAiEvent,
                 scriptPhase, dropLog,
                 sessions, decimators, framers, lastCall, timersArmed>>
  /\ UNCHANGED <<callVars, pureVars>>

\* The session exists once "connection" has fired.
SessionCreated == handshake = "accepted"

SessionStart ==
  /\ SessionCreated
  /\ \/ \E a \in SidInputs, b \in TopSidInputs : TwilioStartEcho(a, b)
     \/ \E a \in SidInputs, b \in TopSidInputs : TwilioStartNoEcho(a, b, "", <<>>)

SessionTick == SessionCreated /\ PacerTick

SessionStop == SessionCreated /\ TwilioStop

SessionClosed == SessionCreated /\ TwilioClosed

HandshakeNext ==
  \/ \E o \in Offers, r \in Releases : Upgrade(o, r)
  \/ SessionStart
  \/ SessionTick
  \/ SessionStop
  \/ SessionClosed

SpecHandshake == HandshakeInit /\ [][HandshakeNext]_vars

\* ========================================================================
\* Telephony messages the handler drops (src/server.js:226-228, 254-257,
\* 991-996, 1046-1050)
\* ========================================================================

\* Dropped messages recorded per call.
MaxDropped == 2

\* dropLog records each message that should be dropped: its kind, its decoded
\* length and the stream id bound when it arrived.
Dropped(kind, len) == [kind |-> kind, len |-> len, sid |-> streamSid]

ErrOtherExt ==
  UNCHANGED <<twilioStarted, sessionApplied, pendingInstructions,
              pendingAssistantId, startAwaiting, connectPhase, uncaught,
              offered, handshake, selected, lastAiEvent, scriptPhase,
              sessions, decimators, framers, lastCall, timersArmed>>

\* A media message of either variant; a payload that does not decode to one
\* frame is recorded.
ErrMedia(ulawLen) ==
  /\ nMedia < MaxMedia
  /\ ulawLen # FRAME => Len(dropLog) < MaxDropped
  /\ MediaEcho(ulawLen) \/ MediaNoEcho(ulawLen)
  /\ dropLog' = IF ulawLen # FRAME
                  THEN Append(dropLog, Dropped("media", ulawLen))
                  ELSE dropLog
  /\ ErrOtherExt
  /\ UNCHANGED pureVars

\* A text that does not parse.
ErrBadJson ==
  /\ Len(dropLog) < MaxDropped
  /\ BadJson
  /\ dropLog' = Append(dropLog, Dropped("badjson", 0))
  /\ ErrOtherExt
  /\ UNCHANGED pureVars

ErrStart ==
  \/ \E a \in SidInputs, b \in TopSidInputs : TwilioStartEcho(a, b)
  \/ \E a \in SidInputs, b \in TopSidInputs : TwilioStartNoEcho(a, b, "", <<>>)

ErrNext ==
  \/ \E n \in MediaLens : ErrMedia(n)
  \/ ErrBadJson
  \/ ErrStart
  \/ PacerTick
  \/ OpenaiOpen
  \/ TwilioStop
  \/ TwilioClosed

SpecErr == Init /\ [][ErrNext]_vars

\* ========================================================================
\* The earlier snapshot of the bridge (src/unnamed/part_000): the connection
\* handler awaits the AI connection before it registers any handler.
\* ========================================================================

\* State at entry of the connection handler: streamSid null, openaiWs null,
\* openaiReady false, empty queue, txTimer null; connectOpenAI is pending.
SnapInit ==
  /\ variant = "snapshot"
  /\ streamSid = Null
  /\ queue = <<>>
  /\ pacerOn = FALSE
  /\ twilioState = "OPEN"
  /\ openaiState = "CONNECTING"
  /\ openaiReady = FALSE
  /\ assistantSpeaking = FALSE
  /\ timerHandle = FALSE
  /\ timerPending = FALSE
  /\ frames = 0
  /\ decimKeepLen = 0
  /\ ulawRemLen = 0
  /\ symParam = ""
  /\ instParam = <<>>
  /\ greetingSent = FALSE
  /\ pendingLookups = 0
  /\ enqueued = <<>>
  /\ twilioSent = <<>>
  /\ openaiSent = <<>>
  /\ nMedia = 0
  /\ nDeltas = 0
  /\ twilioStarted = FALSE
  /\ sessionApplied = FALSE
  /\ pendingInstructions = ""
  /\ pendingAssistantId = ""
  /\ startAwaiting = 0
  /\ connectPhase = "awaiting"
  /\ uncaught = FALSE
  /\ offered = <<>>
  /\ handshake = "accepted"
  /\ selected = ""
  /\ lastAiEvent = "none"
  /\ scriptPhase = "none"
  /\ dropLog = <<>>
  /\ HouseIdle
  /\ PureIdle

\* The handlers of both sockets are registered (lines 154-275 have run).
Listening == connectPhase = "ready"

SnapExtRest ==
  UNCHANGED <<twilioStarted, sessionApplied, pendingInstructions,
              pendingAssistantId, startAwaiting, offered, handshake, selected,
              scriptPhase, dropLog,
              sessions, decimators, framers, lastCall, timersArmed>>

\* connectOpenAI resolves: "open" sent the session update and the greeting
\* request; the handler sets openaiReady and goes on to register the handlers.
SnapConnectOk ==
  /\ connectPhase = "awaiting"
  /\ connectPhase' = "ready"
  /\ openaiState' = "OPEN"
  /\ openaiReady' = TRUE
  /\ openaiSent' = openaiSent \o <<Msg("session.update", <<"config">>),
                                   Msg("response.create", <<"greeting", "fixed">>)>>
  /\ UNCHANGED <<variant, streamSid, queue, pacerOn, twilioState, assistantSpeaking,
                 timerHandle, timerPending, frames, decimKeepLen, ulawRemLen,
                 symParam, instParam, greetingSent, pendingLookups, enqueued,
                 twilioSent, nMedia, nDeltas>>
  /\ UNCHANGED <<uncaught, lastAiEvent>>
  /\ SnapExtRest
  /\ UNCHANGED pureVars

\* connectOpenAI rejects: the catch leaves openaiWs null and openaiReady
\* false, and the next statement, openaiWs.on("message", ...), throws a
\* TypeError.  The async handler's promise rejects with no one to handle it:
\* the runtime either ends the process (exits) or only warns; in both cases
\* the statements after line 154 never run.
SnapConnectFail(exits) ==
  /\ connectPhase = "awaiting"
  /\ connectPhase' = IF exits THEN "exited" ELSE "failed"
  /\ openaiState' = "CLOSED"
  /\ openaiReady' = FALSE
  /\ uncaught' = TRUE
  /\ lastAiEvent' = "connect-error"
  /\ twilioState' = IF exits THEN "CLOSED" ELSE twilioState
  /\ UNCHANGED <<variant, streamSid, queue, pacerOn, assistantSpeaking,
                 timerHandle, timerPending, frames, decimKeepLen, ulawRemLen,
                 symParam, instParam, greetingSent, pendingLookups, enqueued,
                 twilioSent, openaiSent, nMedia, nDeltas>>
  /\ SnapExtRest
  /\ UNCHANGED pureVars

\* The telephony events tried while no handler is registered.
UnheardEvents == {"start", "stop"}

\* A telephony message while no handler is registered (the connection handler
\* is suspended at its await, or ended at line 154): the socket emits it to no
\* listener and it is lost.  dropLog notes it.
SnapUnheard(event) ==
  /\ connectPhase \in {"awaiting", "failed"}
  /\ twilioState = "OPEN"
  /\ Len(dropLog) < MaxDropped
  /\ dropLog' = Append(dropLog, Dropped(event, 0))
  /\ ErrOtherExt
  /\ UNCHANGED <<callVars, pureVars>>

\* case "start": bind the stream id, queue the tone, start the pacer.
SnapStart(startSid, topSid) ==
  /\ Listening
  /\ twilioState \in {"OPEN", "CLOSING"}
  /\ Len(enqueued) + Len(ToneFrameLens) <= MaxFrames
  /\ streamSid' = SidOf(startSid, topSid)
  /\ queue' = PushFrames(queue, enqueued, "tone", ToneFrameLens)
  /\ enqueued' = PushFrames(enqueued, enqueued, "tone", ToneFrameLens)
  /\ pacerOn' = TRUE
  /\ UNCHANGED <<variant, twilioState, openaiState, openaiReady,
                 assistantSpeaking, timerHandle, timerPending, frames,
                 decimKeepLen, ulawRemLen, symParam, instParam, greetingSent,
                 pendingLookups, twilioSent, openaiSent, nMedia, nDeltas>>
  /\ UNCHANGED <<extVars, pureVars>>

\* case "media": forwarded when openaiReady; a send on a socket that is no
\* longer open is swallowed by the try/catch.
SnapMedia ==
  /\ Listening
  /\ twilioState \in {"OPEN", "CLOSING"}
  /\ nMedia < MaxMedia
  /\ nMedia' = nMedia + 1
  /\ openaiSent' = IF openaiReady /\ openaiState = "OPEN"
                     THEN Append(openaiSent, Msg("input_audio_buffer.append", <<>>))
                     ELSE openaiSent
  /\ UNCHANGED <<variant, streamSid, queue, pacerOn, twilioState, openaiState,
                 openaiReady, assistantSpeaking, timerHandle, timerPending, frames,
                 decimKeepLen, ulawRemLen, symParam, instParam, greetingSent,
                 pendingLookups, enqueued, twilioSent, nDeltas>>
  /\ UNCHANGED <<extVars, pureVars>>

\* case "stop": stop the pacer, close both sockets.
SnapStop ==
  /\ Listening
  /\ twilioState \in {"OPEN", "CLOSING"}
  /\ pacerOn' = FALSE
  /\ openaiState' = CloseSocket(openaiState)
  /\ twilioState' = CloseSocket(twilioState)
  /\ UNCHANGED <<variant, streamSid, queue, openaiReady, assistantSpeaking,
                 timerHandle, timerPending, frames, decimKeepLen, ulawRemLen,
                 symParam, instParam, greetingSent, pendingLookups, enqueued,
                 twilioSent, openaiSent, nMedia, nDeltas>>
  /\ UNCHANGED <<extVars, pureVars>>

\* The telephony socket closes; the close handler, when registered, stops
\* the pacer and closes the AI socket.
SnapTwilioClosed ==
  /\ connectPhase # "exited"
  /\ twilioState # "CLOSED"
  /\ twilioState' = "CLOSED"
  /\ pacerOn' = IF Listening THEN FALSE ELSE pacerOn
  /\ openaiState' = IF Listening THEN CloseSocket(openaiState) ELSE openaiState
  /\ UNCHANGED <<variant, streamSid, queue, openaiReady, assistantSpeaking,
                 timerHandle, timerPending, frames, decimKeepLen, ulawRemLen,
                 symParam, instParam, greetingSent, pendingLookups, enqueued,
                 twilioSent, openaiSent, nMedia, nDeltas>>
  /\ UNCHANGED <<extVars, pureVars>>

\* The AI socket closes after a successful connect.
SnapAiClosed ==
  /\ Listening
  /\ openaiState # "CLOSED"
  /\ openaiState' = "CLOSED"
  /\ openaiReady' = FALSE
  /\ UNCHANGED <<variant, streamSid, queue, pacerOn, twilioState, assistantSpeaking,
                 timerHandle, timerPending, frames, decimKeepLen, ulawRemLen,
                 symParam, instParam, greetingSent, pendingLookups, enqueued,
                 twilioSent, openaiSent, nMedia, nDeltas>>
  /\ UNCHANGED <<extVars, pureVars>>

\* Which of the snapshot's two delta branches, if any, takes the message
\* (part_000:159, 174).
SnapDeltaAccepted(type, carrier, bytes) ==
  /\ bytes > 0
  /\ \/ type = "response.audio.delta"
     \/ type = "output_audio.delta" /\ carrier = "audio"

\* An audio delta: pick every 3rd sample, encode, push the complete frames,
\* then startPacer().  The socket still emits messages after close() was
\* called on it, until the closing handshake ends.
SnapAudioDelta(type, carrier, bytes) ==
  /\ Listening
  /\ openaiState \in {"OPEN", "CLOSING"}
  /\ nDeltas < MaxDeltas
  /\ nDeltas' = nDeltas + 1
  /\ IF SnapDeltaAccepted(type, carrier, bytes)
       THEN LET lens == CutFrameLens(Int16ViewLen(bytes) \div 3)
            IN  /\ Len(enqueued) + Len(lens) <= MaxFrames
                /\ queue' = PushFrames(queue, enqueued, "ai", lens)
                /\ enqueued' = PushFrames(enqueued, enqueued, "ai", lens)
                /\ pacerOn' = TRUE
       ELSE UNCHANGED <<queue, enqueued, pacerOn>>
  /\ UNCHANGED <<variant, streamSid, twilioState, openaiState, openaiReady,
                 assistantSpeaking, timerHandle, timerPending, frames,
                 decimKeepLen, ulawRemLen, symParam, instParam, greetingSent,
                 pendingLookups, twilioSent, openaiSent, nMedia>>
  /\ UNCHANGED <<extVars, pureVars>>

SnapNext ==
  \/ SnapConnectOk
  \/ \E x \in BOOLEAN : SnapConnectFail(x)
  \/ \E e \in UnheardEvents : SnapUnheard(e)
  \/ \E a \in SidInputs, b \in TopSidInputs : SnapStart(a, b)
  \/ SnapMedia
  \/ SnapStop
  \/ SnapTwilioClosed
  \/ SnapAiClosed
  \/ \E m \in DeltaMsgs : SnapAudioDelta(m[1], m[2], m[3])
  \/ PacerTick

SpecSnapshot == SnapInit /\ [][SnapNext]_vars

\* ------------------------------------------------------------------------
\* The AI socket closing in mid-call (src/server.js:216, 259-273).  dropLog
\* notes the close, with the number of frames sent to the caller so far, and
\* each caller frame handled after it.
\* ------------------------------------------------------------------------

CloseAi ==
  /\ Len(dropLog) < MaxDropped
  /\ AiClosed
  /\ dropLog' = Append(dropLog, Dropped("ai-closed", Len(twilioSent)))
  /\ ErrOtherExt
  /\ UNCHANGED pureVars

CloseMedia ==
  /\ nMedia < MaxMedia
  /\ openaiState = "CLOSED" => Len(dropLog) < MaxDropped
  /\ MediaEcho(FRAME) \/ MediaNoEcho(FRAME)
  /\ dropLog' = IF openaiState = "CLOSED"
                  THEN Append(dropLog, Dropped("late-media", FRAME))
                  ELSE dropLog
  /\ ErrOtherExt
  /\ UNCHANGED pureVars

CloseNext ==
  \/ OpenaiOpen
  \/ CloseAi
  \/ CloseMedia
  \/ ErrStart
  \/ PacerTick
  \/ TwilioStop
  \/ TwilioClosed

SpecAiClose == Init /\ [][CloseNext]_vars

\* ========================================================================
\* AI messages that are JSON but not of the expected shape
\* (src/server.js:158-213, 931-977)
\* ========================================================================

AiMsgInit == CallInit("noecho") /\ ExtIdle /\ PureIdle

AiMsgExtRest ==
  UNCHANGED <<twilioStarted, sessionApplied, pendingInstructions,
              pendingAssistantId, startAwaiting, connectPhase, offered,
              handshake, selected, scriptPhase, dropLog,
              sessions, decimators, framers, lastCall, timersArmed>>

\* The echo variant runs the whole handler body inside try/catch; the noecho
\* variant guards JSON.parse only.
BodyGuarded == variant = "echo"

\* The JSON text null: JSON.parse returns null and msg.type throws a
\* TypeError.
AiNullMessage ==
  /\ AiDelivers
  /\ uncaught' = ~BodyGuarded
  /\ lastAiEvent' = "null"
  /\ AiMsgExtRest
  /\ UNCHANGED <<callVars, pureVars>>

\* Audio carriers that are truthy but not strings: Buffer.from rejects them
\* with a TypeError.
BadCarriers == {"number", "true", "object"}

\* A delta event whose audio field holds such a value: the branch is taken,
\* markAssistantSpeaking runs, then Buffer.from throws.
AiBadCarrier(type, carrier, value) ==
  /\ AiDelivers
  /\ nDeltas < MaxDeltas
  /\ nDeltas' = nDeltas + 1
  /\ DeltaAccepted(type, carrier, 1)
  /\ value \in BadCarriers
  /\ MarkAssistantSpeaking
  /\ uncaught' = ~BodyGuarded
  /\ lastAiEvent' = "bad-carrier"
  /\ AiMsgExtRest
  /\ UNCHANGED <<variant, streamSid, queue, pacerOn, twilioState, openaiState,
                 openaiReady, frames, decimKeepLen, ulawRemLen, symParam,
                 instParam, greetingSent, pendingLookups, enqueued, twilioSent,
                 openaiSent, nMedia>>
  /\ UNCHANGED pureVars

AiMsgNext ==
  \/ OpenaiOpen
  \/ \E m \in DeltaMsgs : AiAudioDeltaNoEcho(m[1], m[2], m[3])
  \/ \E m \in DeltaMsgs : AiRejectedDelta(m[1], m[2], m[3])
  \/ \E t \in EndTypes : AiResponseEnd(t)
  \/ \E t \in OtherTypes \cup {"<not json>"} : AiOtherMessage(t)
  \/ AiNullMessage
  \/ \E m \in DeltaMsgs, v \in BadCarriers : AiBadCarrier(m[1], m[2], v)
  \/ SafetyTimeout
  \/ \E a \in SidInputs, b \in TopSidInputs : TwilioStartNoEcho(a, b, "", <<>>)
  \/ PacerTick
  \/ OpenaiClosed

SpecAiMsg == AiMsgInit /\ [][AiMsgNext]_vars

\* ========================================================================
\* Two calls served by one process (src/server.js:77-100, 223-224, 777-817):
\* every mutable variable is declared inside the connection handler, and the
\* decimator and the framer are built there, once per connection.
\* ========================================================================

\* Frames each pacer may send in the scenario.
MaxTcSent == 1

\* Decoded length of the audio delta of the scenario: 600 samples.
TcDeltaBytes == 1201

\* The decimator shared by every connection.
DecimatorShared(c) == 1

\* The decimator instance the handler of connection c calls: the one it
\* built itself (const decimate24kTo8k = makeDecimatorBy3_24kTo8k()).
DecimatorOf(c) == c

\* Likewise the framer (const flushUlawFrames = makeUlawFramer()).
FramerOf(c) == c

TcPush(q, src, n) == q \o [j \in 1..n |-> src]

\* Only houseVars change in the scenario.
TcStep(c, session) ==
  /\ sessions' = [sessions EXCEPT ![c] = session]
  /\ lastCall' = c
  /\ UNCHANGED <<callVars, pureVars>>
  /\ UNCHANGED <<twilioStarted, sessionApplied, pendingInstructions,
                 pendingAssistantId, startAwaiting, connectPhase, uncaught,
                 offered, handshake, selected, lastAiEvent, scriptPhase, dropLog,
                 timersArmed>>

\* case "start" on connection c.
TcStart(c, sid) ==
  LET s == sessions[c]
  IN  /\ s.twilioOpen
      /\ s.streamSid = Null
      /\ TcStep(c, [s EXCEPT !.streamSid = sid,
                             !.queue = TcPush(@, "tone", Len(ToneFrameLens))])
      /\ UNCHANGED <<decimators, framers>>

\* openaiWs.on("open") of connection c.
TcOpen(c) ==
  LET s == sessions[c]
  IN  /\ s.ai = "CONNECTING"
      /\ TcStep(c, [s EXCEPT !.ai = "OPEN", !.openaiReady = TRUE])
      /\ UNCHANGED <<decimators, framers>>

\* case "media" on connection c, a well-formed frame.
TcMedia(c) ==
  LET s        == sessions[c]
      forward  == s.openaiReady /\ s.ai = "OPEN"
      echo     == variant = "echo" /\ ~s.assistantSpeaking
  IN  /\ s.twilioOpen
      /\ s.nMedia < MaxMedia
      /\ TcStep(c, [s EXCEPT
                      !.nMedia = @ + 1,
                      !.frames = IF variant = "echo" /\ forward
                                   THEN NextFrames(@) ELSE @,
                      !.queue  = IF echo THEN TcPush(@, "echo", 1) ELSE @])
      /\ UNCHANGED <<decimators, framers>>

\* An audio delta on connection c.
TcDelta(c) ==
  LET s == sessions[c]
      d == DecimatorOf(c)
      f == FramerOf(c)
      n == Int16ViewLenNoFloor(TcDeltaBytes)
      outCount == DecimOutCount(decimators[d], n)
  IN  /\ s.ai = "OPEN"
      /\ s.nDeltas < MaxDeltas
      /\ IF variant = "echo"
           THEN /\ TcStep(c, [s EXCEPT
                                !.nDeltas = @ + 1,
                                !.assistantSpeaking = TRUE,
                                !.timerPending = TRUE,
                                !.queue = TcPush(@, "ai",
                                   Len(CutFrameLens(Int16ViewLen(TcDeltaBytes) \div 3)))])
                /\ UNCHANGED <<decimators, framers>>
           ELSE /\ decimators' = [decimators EXCEPT ![d] = DecimKeepLen(@, n)]
                /\ framers' = IF outCount > 0
                                THEN [framers EXCEPT ![f] = FlushRemLen(@, outCount)]
                                ELSE framers
                /\ TcStep(c, [s EXCEPT
                                !.nDeltas = @ + 1,
                                !.assistantSpeaking = TRUE,
                                !.timerPending = TRUE,
                                !.queue = IF outCount > 0
                                            THEN TcPush(@, "ai",
                                                   Len(FlushFrameLens(framers[f], outCount)))
                                            ELSE @])

\* An end-of-response event on connection c.
TcEnd(c) ==
  LET s == sessions[c]
  IN  /\ s.ai = "OPEN"
      /\ s.assistantSpeaking
      /\ TcStep(c, [s EXCEPT !.assistantSpeaking = FALSE, !.timerPending = FALSE])
      /\ UNCHANGED <<decimators, framers>>

\* The safety timer of connection c.
TcTimeout(c) ==
  LET s == sessions[c]
  IN  /\ s.timerPending
      /\ TcStep(c, [s EXCEPT !.assistantSpeaking = FALSE, !.timerPending = FALSE])
      /\ UNCHANGED <<decimators, framers>>

\* A pacer tick of connection c.
TcTick(c) ==
  LET s    == sessions[c]
      idle == ~Truthy(s.streamSid) \/ Len(s.queue) = 0 \/ ~s.twilioOpen
  IN  /\ idle \/ s.sent < MaxTcSent
      /\ TcStep(c, IF idle THEN s
                           ELSE [s EXCEPT !.queue = Tail(@), !.sent = @ + 1])
      /\ UNCHANGED <<decimators, framers>>

TcNext ==
  \E c \in CallIds :
    \/ TcStart(c, IF c = 1 THEN "MZ1" ELSE "MZ2")
    \/ TcOpen(c)
    \/ TcMedia(c)
    \/ TcDelta(c)
    \/ TcEnd(c)
    \/ TcTimeout(c)
    \/ TcTick(c)

SpecTwoCalls == Init /\ [][TcNext]_vars

\* ------------------------------------------------------------------------
\* The deferred variant with repeated start events: room for the tone of two.
\* ------------------------------------------------------------------------

MaxConfigFrames == 102

ConfigStart(startSid, topSid, sym, inst, sendThrows) ==
  /\ Len(enqueued) + (startAwaiting + 1) * Len(ToneFrameLens) <= MaxConfigFrames
  /\ handleStartEvent(startSid, topSid, sym, inst, sendThrows)

ConfigNext ==
  \/ \E d \in DeferredStarts, t \in BOOLEAN :
       ConfigStart(d[1], d[2], d[3], d[4], t)
  \/ \E f \in FetchResults, t \in BOOLEAN : DeferredStartResume(f, t)
  \/ DeferredOpen
  \/ DeferredMedia(FRAME)
  \/ TwilioStop
  \/ TwilioClosed
  \/ OpenaiClosing
  \/ OpenaiClosed

SpecConfig == DeferredInit /\ [][ConfigNext]_vars

\* ------------------------------------------------------------------------
\* The noecho variant with repeated start events (src/server.js:886-899,
\* 1004-1030): room for the tone of two.
\* ------------------------------------------------------------------------

GreetInit == CallInit("noecho") /\ ExtIdle /\ PureIdle

GreetStart(startSid, topSid, cpSym, cpInst) ==
  /\ Len(enqueued) + Len(ToneFrameLens) <= MaxConfigFrames
  /\ StartNoEcho(startSid, topSid, cpSym, cpInst)
  /\ UNCHANGED <<extVars, pureVars>>

GreetNext ==
  \/ \E a \in SidInputs, s \in SymValues, i \in InstInputs :
       GreetStart(a, Absent, s, i)
  \/ \E x \in ExtraInputs : LookupDone(x)
  \/ OpenaiOpen
  \/ OpenaiClosing
  \/ OpenaiClosed
  \/ TwilioStop
  \/ TwilioClosed

SpecGreeting == GreetInit /\ [][GreetNext]_vars

\* ========================================================================
\* The decimator, the framer and the upsampler on sample data
\* (src/server.js:55-59, 697-763)
\* ========================================================================

\* designLowpassFIR returns 63 finite coefficients.  Their floating-point
\* values are not reproduced; the decimator is run with each of these integer
\* banks in their place, so acc is an integer and Math.round leaves it as is.
FirBanks == {"boxcar", "alternating", "centre"}

Coeff(bank, k) ==
  CASE bank = "boxcar"      -> 1
    [] bank = "alternating" -> IF k % 2 = 0 THEN 2 ELSE -1
    [] OTHER                -> IF k = 31 THEN 3 ELSE 0

\* The 24 kHz streams fed: silence, and a ramp over the int16 range.
Signals == {"zero", "ramp"}

\* Sample p (from 0) of the stream, with its position kept alongside its value.
SampleAt(signal, p) ==
  [i |-> p, v |-> IF signal = "zero" THEN 0 ELSE ((p * 523) % 65536) - 32768]

\* Math.max(-32768, Math.min(32767, Math.round(acc)))
Clamp16(acc) == Max(-32768, Min(32767, acc))

RECURSIVE FirSumBiased(_, _, _, _)
\* The accumulation started from 1 instead of 0.
FirSumBiased(bank, x, pos, k) ==
  IF k = TAPS THEN 1
  ELSE Coeff(bank, k) * x[pos - k + 1].v + FirSumBiased(bank, x, pos, k + 1)

RECURSIVE FirSum(_, _, _, _)
\* for (k = 0; k < TAPS; k++) acc += H[k] * x[pos - k], from tap k on; pos
\* counts from 0.
FirSum(bank, x, pos, k) ==
  IF k = TAPS THEN 0
  ELSE Coeff(bank, k) * x[pos - k + 1].v + FirSum(bank, x, pos, k + 1)

\* The output loop: sample o (from 1) is taken at pos = need + 3 * (o - 1);
\* win lists the stream positions of x[pos - 62] .. x[pos].
DecimOutputs(bank, x, outCount) ==
  [o \in 1..outCount |->
     LET pos == DecimNeed + 3 * (o - 1)
     IN  [win |-> [j \in 1..TAPS |-> x[pos - TAPS + 1 + j].i],
          v   |-> Clamp16(FirSum(bank, x, pos, 0))]]

\* A decimator that carries over the filter history only.
decimateDropRemainder(bank, keepIn, int16In) ==
  LET x     == keepIn \o int16In
      avail == Len(x) - DecimNeed
  IN  IF avail <= 0 THEN [keep |-> x, y |-> <<>>]
      ELSE [keep |-> SubSeq(x, Len(x) - DecimNeed + 1, Len(x)),
            y    |-> DecimOutputs(bank, x, avail \div 3)]

\* A decimator that starts afresh when called with no samples.
decimateForgetOnEmpty(bank, keepIn, int16In) ==
  LET x       == keepIn \o int16In
      avail   == Len(x) - DecimNeed
      keepLen == DecimNeed + (avail - 3 * (avail \div 3))
  IN  IF Len(int16In) = 0 THEN [keep |-> <<>>, y |-> <<>>]
      ELSE IF avail <= 0 THEN [keep |-> x, y |-> <<>>]
      ELSE [keep |-> SubSeq(x, Len(x) - keepLen + 1, Len(x)),
            y    |-> DecimOutputs(bank, x, avail \div 3)]

\* decimate(int16In) with the closure's keep made explicit: the new keep and
\* the samples returned.
decimate(bank, keepIn, int16In) ==
  LET x       == keepIn \o int16In
      avail   == Len(x) - DecimNeed
      keepLen == DecimNeed + (avail - 3 * (avail \div 3))
  IN  IF avail <= 0 THEN [keep |-> x, y |-> <<>>]
      ELSE [keep |-> SubSeq(x, Len(x) - keepLen + 1, Len(x)),
            y    |-> DecimOutputs(bank, x, avail \div 3)]

\* Samples given to the decimator per run.
MaxDecimSamples == 70

\* Bytes given to the framer per run.
MaxDspBytes == 260

DecimChunks == {0, 1, 3, 61, 62, 63}

DspFlushChunks == {0, 100, 160}

UpLens == {0, 2}

\* A fresh decimator and framer; the stream and the coefficients are fixed
\* for the run.
DspInit ==
  /\ CallInit("noecho")
  /\ ExtIdle
  /\ codecIn = <<>>
  /\ codecPcm = <<>>
  /\ codecOut = <<>>
  /\ ulawRemainder = <<>>
  /\ framerQueue = <<>>
  /\ framerInput = <<>>
  /\ aiPos = 0
  /\ aiQueue = <<>>
  /\ dsSignal \in Signals
  /\ dsFir \in FirBanks
  /\ dsFed = 0
  /\ keep = <<>>
  /\ dsOut = <<>>
  /\ dsLast = NoCall
  /\ upOut = <<>>
  /\ ToolIdle

\* One call of the decimator with the next n samples of the stream.
DspDecimate(n) ==
  /\ dsFed + n <= MaxDecimSamples
  /\ LET int16In == [j \in 1..n |-> SampleAt(dsSignal, dsFed + j - 1)]
         r       == decimate(dsFir, keep, int16In)
     IN  /\ keep' = r.keep
         /\ dsOut' = dsOut \o r.y
         /\ dsLast' = [fn |-> "decimate", inLen |-> n, outLen |-> Len(r.y)]
  /\ dsFed' = dsFed + n
  /\ UNCHANGED <<dsSignal, dsFir, upOut>>
  /\ UNCHANGED <<codecIn, codecPcm, codecOut, ulawRemainder, framerQueue,
                 framerInput, aiPos, aiQueue>>
  /\ UNCHANGED <<callVars, extVars, toolVars>>

\* One call of the framer with the next n bytes.
DspFlush(n) ==
  /\ Len(framerInput) + n <= MaxDspBytes
  /\ LET chunk == [i \in 1..n |-> StreamByte(Len(framerInput) + i)]
         r     == flushUlawFrames(ulawRemainder, chunk)
     IN  /\ framerQueue' = framerQueue \o r.frames
         /\ ulawRemainder' = r.remainder
         /\ framerInput' = framerInput \o chunk
         /\ dsLast' = [fn |-> "flush", inLen |-> n, outLen |-> Len(r.frames)]
  /\ UNCHANGED <<dsSignal, dsFir, dsFed, keep, dsOut, upOut>>
  /\ UNCHANGED <<codecIn, codecPcm, codecOut, aiPos, aiQueue>>
  /\ UNCHANGED <<callVars, extVars, toolVars>>

\* upsample8kTo16k on the first n samples of the stream.
DspUpsample(n) ==
  /\ upOut' = upsample8kTo16k([j \in 1..n |-> SampleAt(dsSignal, j - 1).v])
  /\ dsLast' = [fn |-> "upsample", inLen |-> n, outLen |-> Len(upOut')]
  /\ UNCHANGED <<dsSignal, dsFir, dsFed, keep, dsOut>>
  /\ UNCHANGED <<codecIn, codecPcm, codecOut, ulawRemainder, framerQueue,
                 framerInput, aiPos, aiQueue>>
  /\ UNCHANGED <<callVars, extVars, toolVars>>

DspNext ==
  \/ \E n \in DecimChunks : DspDecimate(n)
  \/ \E n \in DspFlushChunks : DspFlush(n)
  \/ \E n \in UpLens : DspUpsample(n)

SpecDsp == DspInit /\ [][DspNext]_vars

\* ------------------------------------------------------------------------
\* Playing out a burst (src/server.js:84-92, 778-787): the tone and the
\* frames of a delta or an echoed frame are queued at once, and the pacer,
\* which keeps firing, plays them all.
\* ------------------------------------------------------------------------

DrainNext ==
  \/ Pacer
  \/ \E a \in SidInputs, b \in TopSidInputs : TwilioStartEcho(a, b)
  \/ \E a \in SidInputs, b \in TopSidInputs : TwilioStartNoEcho(a, b, "", <<>>)
  \/ OpenaiOpen
  \/ \E m \in DeltaMsgs : AiAudioDeltaEcho(m[1], m[2], m[3])
  \/ \E m \in DeltaMsgs : AiAudioDeltaNoEcho(m[1], m[2], m[3])
  \/ TwilioMediaEcho(FRAME)
  \/ TwilioStop
  \/ TwilioClosed

SpecDrain == Init /\ [][DrainNext]_vars /\ WF_vars(Pacer)

\* ------------------------------------------------------------------------
\* The safety timer as the runtime sees it (src/server.js:101-115, 800-813):
\* timersArmed counts the setTimeout callbacks scheduled and neither run nor
\* cancelled; timerPending says whether the one speakingResetTimer refers to
\* is among them.
\* ------------------------------------------------------------------------

MaxMarks == 3

\* if (speakingResetTimer) clearTimeout(speakingResetTimer): cancels the
\* timeout the handle refers to, when it has not run yet.
ClearTimeoutOf(n) == IF timerHandle /\ timerPending THEN n - 1 ELSE n

\* A mark that arms a new timeout without cancelling the earlier one; C36
\* does not hold of it.
ArmedAfterMarkNoCancel == timersArmed + 1

\* markAssistantSpeaking(): clearTimeout, then setTimeout.
ArmedAfterMark == ClearTimeoutOf(timersArmed) + 1

\* clearAssistantSpeaking(): clearTimeout.
ArmedAfterClear == ClearTimeoutOf(timersArmed)

SafetyExtRest ==
  UNCHANGED <<twilioStarted, sessionApplied, pendingInstructions,
              pendingAssistantId, startAwaiting, connectPhase, uncaught,
              offered, handshake, selected, lastAiEvent, scriptPhase, dropLog,
              sessions, decimators, framers, lastCall>>

\* An audio delta: the handler marks, decimates and pushes.
SafetyDelta(type, carrier, bytes) ==
  /\ nDeltas < MaxMarks
  /\ DeltaEcho(type, carrier, bytes) \/ DeltaNoEcho(type, carrier, bytes)
  /\ timersArmed' = ArmedAfterMark
  /\ SafetyExtRest
  /\ UNCHANGED pureVars

\* An end-of-response event: the handler clears.
SafetyEnd(type) ==
  /\ ResponseEnd(type)
  /\ timersArmed' = ArmedAfterClear
  /\ SafetyExtRest
  /\ UNCHANGED pureVars

\* A scheduled callback runs: the one speakingResetTimer refers to (own), or
\* one that was scheduled earlier and never cancelled.
SafetyFire ==
  /\ Running
  /\ timersArmed > 0
  /\ \E own \in BOOLEAN :
       /\ own => timerPending
       /\ ~own => timersArmed > (IF timerPending THEN 1 ELSE 0)
       /\ timerPending' = IF own THEN FALSE ELSE timerPending
  /\ assistantSpeaking' = FALSE
  /\ timersArmed' = timersArmed - 1
  /\ UNCHANGED <<variant, streamSid, queue, pacerOn, twilioState, openaiState,
                 openaiReady, timerHandle, frames, decimKeepLen, ulawRemLen,
                 symParam, instParam, greetingSent, pendingLookups, enqueued,
                 twilioSent, openaiSent, nMedia, nDeltas>>
  /\ SafetyExtRest
  /\ UNCHANGED pureVars

SafetyNext ==
  \/ \E m \in DeltaMsgs : SafetyDelta(m[1], m[2], m[3])
  \/ \E t \in EndTypes : SafetyEnd(t)
  \/ SafetyFire
  \/ OpenaiOpen
  \/ \E a \in SidInputs, b \in TopSidInputs : TwilioStartEcho(a, b)
  \/ PacerTick
  \/ TwilioStop
  \/ TwilioClosed

SpecSafety == Init /\ [][SafetyNext]_vars

\* ========================================================================
\* The tool runner (src/functions/index.js, src/functions/search_web.js)
\* ========================================================================

MaxToolCalls == 3

\* The names a caller may pass.  RUNNERS is an object literal, so a name of
\* Object.prototype ("toString") finds an inherited function.
ToolNames == {"search_web", "lookup", "toString"}

UrlArgs == {Absent, "", "https://example.org"}

TermArgs == {Absent, "", "refund"}

\* RUNNERS[name]
Runner(name) ==
  CASE name = "search_web" -> "search_web"
    [] name = "toString"   -> "Object.prototype.toString"
    [] OTHER               -> Absent

\* default of max_snippets
SnippetCap == 5

\* The statuses the page fetch may answer with, and the occurrences of the
\* term in the page.
HttpStatuses == {200, 404, 500}

Occurrences == {0, 2}

\* A settled call: how the promise runTool returned settled, and with what.
\*   failure: which of the failures happened ("none": the tool succeeded)
\*   settled: "resolved" or "rejected"
\*   error:   the message of the Error the promise rejected with, or of the
\*            error value it resolved with ("" when there is none)
\*   hits:    the hits field of the result (-1 when there is none)
Settled(name, failure, settled, error, hits) ==
  [name |-> name, failure |-> failure, settled |-> settled,
   error |-> error, hits |-> hits]

\* throw new Error(message) inside an async function: the promise rejects.
Throw(name, failure, message) ==
  Settled(name, failure, "rejected", message, -1)

\* runTool(name, args) up to the await of fetch in search_web.
RunTool(name, url, term) ==
  /\ toolPending = NoTool
  /\ Len(toolLog) < MaxToolCalls
  /\ IF Runner(name) = Absent
       THEN /\ toolLog' = Append(toolLog,
                            Throw(name, "unknown_tool", "Unknown tool"))
            /\ UNCHANGED toolPending
     ELSE IF Runner(name) # "search_web"
       THEN \* the inherited function runs and returns a string
            /\ toolLog' = Append(toolLog,
                            Settled(name, "unknown_tool", "resolved", "", -1))
            /\ UNCHANGED toolPending
     ELSE IF ~Truthy(url) \/ ~Truthy(term)
       THEN /\ toolLog' = Append(toolLog,
                            Throw(name, "missing_args", "Missing url or term"))
            /\ UNCHANGED toolPending
     ELSE /\ toolPending' = [name |-> name, url |-> url, term |-> term]
          /\ UNCHANGED toolLog
  /\ UNCHANGED <<callVars, extVars>>
  /\ UNCHANGED <<codecIn, codecPcm, codecOut, ulawRemainder, framerQueue,
                 framerInput, aiPos, aiQueue, dspVars>>

\* fetch rejects (network error, or the 10 s abort): the .catch rethrows.
ToolFetchFails ==
  /\ toolPending # NoTool
  /\ toolLog' = Append(toolLog,
                  Throw(toolPending.name, "fetch_failed", "Fetch failed"))
  /\ toolPending' = NoTool
  /\ UNCHANGED <<callVars, extVars>>
  /\ UNCHANGED <<codecIn, codecPcm, codecOut, ulawRemainder, framerQueue,
                 framerInput, aiPos, aiQueue, dspVars>>

\* fetch resolves with a response of the given status whose text holds the
\* term the given number of times.
ToolFetchResponds(status, occurrences) ==
  /\ toolPending # NoTool
  /\ IF status < 200 \/ status > 299
       THEN toolLog' = Append(toolLog,
                         Throw(toolPending.name, "http_status", "HTTP"))
       ELSE toolLog' = Append(toolLog,
                         Settled(toolPending.name, "none", "resolved", "",
                                 Min(occurrences, SnippetCap)))
  /\ toolPending' = NoTool
  /\ UNCHANGED <<callVars, extVars>>
  /\ UNCHANGED <<codecIn, codecPcm, codecOut, ulawRemainder, framerQueue,
                 framerInput, aiPos, aiQueue, dspVars>>

ToolInit == CallInit("noecho") /\ ExtIdle /\ PureIdle

ToolNext ==
  \/ \E name \in ToolNames, url \in UrlArgs, term \in TermArgs :
       RunTool(name, url, term)
  \/ ToolFetchFails
  \/ \E status \in HttpStatuses, occurrences \in Occurrences :
       ToolFetchResponds(status, occurrences)

SpecTools == ToolInit /\ [][ToolNext]_vars

\* ========================================================================
\* Properties
\* ========================================================================

\* The frames of the messages sent on the telephony socket, in order.
SentFrames == [i \in 1..Len(twilioSent) |-> twilioSent[i].frame]

\* The entries a history gained in a step.
Added(old, new) == SubSeq(new, Len(old) + 1, Len(new))

RECURSIVE Flatten(_)
Flatten(ss) == IF ss = <<>> THEN <<>> ELSE Head(ss) \o Flatten(Tail(ss))

HasAppend(msgs) ==
  \E i \in 1..Len(msgs) : msgs[i].type = "input_audio_buffer.append"

HasSrc(fs, src) == \E i \in 1..Len(fs) : fs[i].src = src

\* C1: for every byte b, encoding the sample that the stored table decodes
\* b to gives b back.
C1_RoundTrip == (codecOut # <<>>) => (codecOut = codecIn)

\* C2: a step sends at most one media message, and the frames sent so far are
\* exactly the first frames ever enqueued, in enqueue order.
C2_OnePerTickInOrder ==
  [][ /\ Len(twilioSent') <= Len(twilioSent) + 1
      /\ Len(twilioSent') <= Len(enqueued')
      /\ SentFrames' = SubSeq(enqueued', 1, Len(twilioSent')) ]_vars

C2_Witness ==
  /\ Len(twilioSent) >= 2
  /\ twilioSent[1].frame.src # twilioSent[2].frame.src
  /\ Len(queue) > 0

\* C3: frames sent followed by frames queued are all the frames ever
\* enqueued; while the session id is unknown, the queue empty or the
\* telephony socket not open, no step sends anything or takes a frame off
\* the queue.
C3_NoDropNoDup ==
  /\ [](SentFrames \o queue = enqueued)
  /\ [][ (~Truthy(streamSid) \/ Len(queue) = 0 \/ twilioState # "OPEN")
           => /\ twilioSent' = twilioSent
              /\ Len(queue') >= Len(queue)
              /\ SubSeq(queue', 1, Len(queue)) = queue ]_vars

C3_Witness ==
  /\ Len(twilioSent) > 0
  /\ Len(queue) > 0
  /\ twilioState # "OPEN"
  /\ pacerOn

\* C4: every media message carries a known session id, the one current when
\* it is sent; frames enqueued while the id is unknown wait in the queue.
C4_NeverNullSid ==
  /\ [](\A i \in 1..Len(twilioSent) : Truthy(twilioSent[i].streamSid))
  /\ [][ Len(twilioSent') > Len(twilioSent)
           => /\ Truthy(streamSid)
              /\ \A i \in (Len(twilioSent) + 1)..Len(twilioSent') :
                   /\ twilioSent'[i].streamSid = streamSid
                   /\ twilioSent'[i].event = "media" ]_vars

\* A frame enqueued before session-start was held back and then sent.
C4_Witness ==
  /\ Len(twilioSent) > 0
  /\ twilioSent[1].frame.src # "tone"
  /\ twilioSent[1].streamSid = "MZ2"

\* C5: every frame ever enqueued (so every frame queued or sent) is 160 bytes.
C5_FrameLen == \A i \in 1..Len(enqueued) : enqueued[i].len = 160

C5_Witness ==
  /\ HasSrc(enqueued, "tone")
  /\ HasSrc(enqueued, "ai")
  /\ HasSrc(enqueued, "echo")
  /\ Len(twilioSent) > 0

\* C6: the frames the framer pushed followed by its remainder are the input
\* chunks concatenated; each frame has 160 bytes, the remainder fewer.
C6_FramerLossless ==
  /\ Flatten(framerQueue) \o ulawRemainder = framerInput
  /\ \A i \in 1..Len(framerQueue) : Len(framerQueue[i]) = 160
  /\ Len(ulawRemainder) < 160

\* Two frames out, a remainder kept, after chunks that did not end on frame
\* boundaries.
C6_Witness ==
  /\ Len(framerQueue) = 2
  /\ Len(ulawRemainder) = 79
  /\ Len(framerInput) = 399

\* The mu-law stream of the whole AI audio delivered so far.
WholeStreamUlaw ==
  pcm16ToMuLaw(downsampleIntFactor([k \in 1..aiPos |-> Pcm24(k)], 3))

\* C7: the bytes enqueued by the delta branch do not depend on how the audio
\* was cut into deltas: they are the whole frames of the whole stream.
C7_NoLossAtSeams ==
  Flatten(aiQueue) =
    SubSeq(WholeStreamUlaw, 1, (Len(WholeStreamUlaw) \div 160) * 160)

\* C8: a step that enqueues an echo frame starts with assistantSpeaking false.
C8_EchoSuppressed ==
  [][ HasSrc(Added(enqueued, enqueued'), "echo") => ~assistantSpeaking ]_vars

\* A well-formed caller frame was handled while the assistant was speaking
\* and not echoed.
C8_Witness ==
  /\ variant = "echo"
  /\ nMedia = 1
  /\ assistantSpeaking
  /\ ~HasSrc(enqueued, "echo")

C10_EndClears ==
  [][ (\E t \in EndTypes : AiResponseEnd(t))
        => (~assistantSpeaking' /\ ~timerPending' /\ ~timerHandle') ]_vars

\* An end-of-response event was handled after an audio delta (a timeout
\* would have left the timer handle set).
C10_Witness ==
  /\ nDeltas = 1
  /\ ~assistantSpeaking
  /\ ~timerHandle

\* C11: in the deferred-update variant, once an end-of-response event has
\* followed the audio deltas the assistant no longer counts as speaking, so a
\* caller frame handled then is echoed.
C11_EndRestoresEcho ==
  (lastAiEvent = "end" /\ nDeltas > 0) => (~assistantSpeaking /\ EchoAllowed)

\* C12: an assistant-speaking episode that no end-of-response event closes is
\* closed by the safety timer: the flag does not stay set for ever, the
\* timeout step clears it and leaves no timer pending, and only a later audio
\* delta arms a timer again (so the timeout path runs once per episode).
C12_TimerFiresOnce ==
  /\ assistantSpeaking ~> ~assistantSpeaking
  /\ [][ SafetyTimeout => (~assistantSpeaking' /\ ~timerPending') ]_vars
  /\ [][ (~timerPending /\ timerPending') => (nDeltas' = nDeltas + 1) ]_vars

\* The timeout ran after a delta: the flag is clear, nothing is pending, and
\* the stale handle is still held (an end-of-response event would null it).
C12_Witness ==
  /\ nDeltas = 1
  /\ ~assistantSpeaking
  /\ ~timerPending
  /\ timerHandle

\* C13: a step that sends input_audio_buffer.commit starts with
\* assistantSpeaking false.
C13_NoCommitWhileSpeaking ==
  [][ (CountType(Added(openaiSent, openaiSent'), "input_audio_buffer.commit") > 0)
        => ~assistantSpeaking ]_vars

\* C14: in a scripted run with the assistant silent, no commit is sent before
\* speech has been heard or while it lasts, and at most one is sent for the
\* silence that follows the speech.
C14_CommitFollowsSilence ==
  LET commits == CountType(openaiSent, "input_audio_buffer.commit")
  IN  /\ scriptPhase \in {"none", "speech"} => commits = 0
      /\ scriptPhase = "silence" => commits <= 1

\* C15: a connection is accepted only when the client offered "audio", and
\* then "audio" is the selected sub-protocol; an upgrade request that does not
\* offer "audio" ends rejected, with no session.
C15_OnlyAudioAccepted ==
  /\ SessionCreated => (Offers_Has(offered, "audio") /\ selected = "audio")
  /\ (handshake # "pending" /\ ~Offers_Has(offered, "audio"))
       => handshake = "rejected"

\* The message recorded by this step, if any.
DropStep(kind) ==
  /\ Len(dropLog') = Len(dropLog) + 1
  /\ dropLog'[Len(dropLog')].kind = kind

HasDropped(kind) == \E i \in 1..Len(dropLog) : dropLog[i].kind = kind

\* C16: handling a media message whose payload does not decode to 160 bytes
\* (an absent or empty payload decodes to 0) sends nothing to the AI, queues
\* no echo, leaves the frame counter and every other call variable as it was.
C16_BadLengthDropped ==
  [][ DropStep("media")
        => /\ openaiSent' = openaiSent
           /\ queue' = queue /\ enqueued' = enqueued
           /\ frames' = frames
           /\ UNCHANGED callVars
           /\ uncaught' = uncaught ]_vars

C16_Witness ==
  /\ \E i \in 1..Len(dropLog) :
       dropLog[i].kind = "media" /\ dropLog[i].len = 161
  /\ \E i \in 1..Len(dropLog) :
       dropLog[i].kind = "media" /\ dropLog[i].len = 0
  /\ variant = "echo"
  /\ ForwardAllowed
  /\ EchoAllowed

\* C17: handling a message that is not JSON changes no call variable and
\* raises nothing, so the messages that follow meet the same handler state.
C17_BadJsonDropped ==
  [][ DropStep("badjson") => (UNCHANGED callVars /\ uncaught' = uncaught) ]_vars

\* A start event processed after a dropped text: the text arrived before any
\* stream id was bound, and the tone has begun to leave since.
C17_Witness ==
  /\ \E i \in 1..Len(dropLog) :
       dropLog[i].kind = "badjson" /\ dropLog[i].sid = Null
  /\ Truthy(streamSid)
  /\ Len(twilioSent) > 0
  /\ twilioState = "OPEN"

\* C18: once the AI connection has failed, the call still listens to the
\* telephony socket (so start binds the id and queues the tone, stop tears
\* down), openaiReady is false, and no error is left uncaught.
C18_FailedConnectKeepsCall ==
  lastAiEvent = "connect-error" => (Listening /\ ~openaiReady /\ ~uncaught)

\* C19: once the AI socket has closed, openaiReady is false and no step sends
\* an append or a commit; the close itself leaves the telephony socket, the
\* pacer and the queued frames as they were.
C19_AiCloseKeepsCall ==
  /\ [](openaiState = "CLOSED" => ~openaiReady)
  /\ [][ openaiState = "CLOSED"
           => /\ CountType(Added(openaiSent, openaiSent'), "input_audio_buffer.append") = 0
              /\ CountType(Added(openaiSent, openaiSent'), "input_audio_buffer.commit") = 0
     ]_vars
  /\ [][ (openaiState # "CLOSED" /\ openaiState' = "CLOSED")
           => (twilioState' = twilioState /\ pacerOn' = pacerOn /\ queue' = queue)
     ]_vars

\* The AI socket closed after it had opened; a caller frame came later and
\* the pacer has sent frames since the close, on a telephony socket still open.
C19_Witness ==
  /\ \E i \in 1..Len(dropLog) :
       dropLog[i].kind = "ai-closed" /\ dropLog[i].len < Len(twilioSent)
  /\ HasDropped("late-media")
  /\ openaiSent # <<>>
  /\ ~HasAppend(openaiSent)
  /\ twilioState = "OPEN"
  /\ pacerOn

\* C20: whatever message the AI socket delivers, the handler of the noecho
\* variant returns without an exception escaping it.
C20_AiHandlerNeverThrows == variant = "noecho" => ~uncaught

\* C21: once the stop event has been handled or the telephony socket has
\* closed (the socket is no longer open), close has been called on the AI
\* socket, and no step sends a frame to the caller or takes one off the queue.
C21_TeardownStopsPlayout ==
  /\ [](twilioState # "OPEN" => openaiState \in {"CLOSING", "CLOSED"})
  /\ [][ twilioState # "OPEN"
           => /\ twilioSent' = twilioSent
              /\ Len(queue') >= Len(queue)
              /\ SubSeq(queue', 1, Len(queue)) = queue ]_vars

\* After stop: the interval still runs, frames are still queued, the stream
\* id is bound and the AI socket had opened.
C21_Witness ==
  /\ twilioState = "CLOSING"
  /\ pacerOn
  /\ Len(queue) > 0
  /\ Len(twilioSent) > 0
  /\ Truthy(streamSid)
  /\ openaiSent # <<>>
  /\ openaiState = "CLOSING"

\* C22: a handler that ran for one connection leaves the other connection's
\* closure variables (stream id, queue, assistantSpeaking, frames and the
\* rest) and the carry-over of its decimator and framer unchanged.
C22_CallsIsolated ==
  [][ \A d \in CallIds :
        d # lastCall'
          => /\ sessions'[d] = sessions[d]
             /\ decimators'[DecimatorOf(d)] = decimators[DecimatorOf(d)]
             /\ framers'[FramerOf(d)] = framers[FramerOf(d)] ]_vars

\* Both calls of the noecho variant are under way with different state.
C22_Witness ==
  /\ variant = "noecho"
  /\ \A c \in CallIds : Truthy(sessions[c].streamSid) /\ sessions[c].nDeltas = 1
  /\ sessions[1].streamSid # sessions[2].streamSid
  /\ sessions[1].assistantSpeaking
  /\ ~sessions[2].assistantSpeaking
  /\ sessions[1].sent = 1
  /\ sessions[2].sent = 0
  /\ decimators[1] > 0
  /\ framers[2] > 0

\* C23: in the deferred variant at most one session.update is ever sent on a
\* call, and the step that sends it ends with the AI socket opened, the start
\* event handled and the instructions it carries resolved.
C23_ConfigOnce ==
  /\ [](CountType(openaiSent, "session.update") <= 1)
  /\ [][ CountType(Added(openaiSent, openaiSent'), "session.update") > 0
           => /\ openaiReady' /\ openaiState' = "OPEN"
              /\ twilioStarted'
              /\ pendingInstructions' # ""
              /\ sessionApplied' ]_vars

\* Two start events have run to their end (two tones queued), the update went
\* out once, and the AI socket has closed since.
C23_Witness ==
  /\ CountType(openaiSent, "session.update") = 1
  /\ Len(enqueued) >= 2 * Len(ToneFrameLens)
  /\ openaiState = "CLOSED"
  /\ twilioState = "OPEN"

\* C29: in the deferred variant every input_audio_buffer.append on the AI
\* socket comes after the session.update.
C29_ConfigBeforeAudio ==
  \A i \in 1..Len(openaiSent) :
    openaiSent[i].type = "input_audio_buffer.append"
      => \E j \in 1..(i - 1) : openaiSent[j].type = "session.update"

\* C24: at most one greeting request (response.create) is ever sent on a call.
C24_GreetingOnce == CountType(openaiSent, "response.create") <= 1

\* Two start events, one of them with a lookup, have run to their end, and
\* the greeting went out once.
C24_Witness ==
  /\ CountType(openaiSent, "response.create") = 1
  /\ greetingSent
  /\ Len(enqueued) >= 2 * Len(ToneFrameLens)
  /\ pendingLookups = 0
  /\ symParam # ""

\* The trailing n stream positions of the dsFed samples given so far.
LastPositions(n) == [j \in 1..n |-> dsFed - n + j - 1]

\* C25: however the stream was cut into calls, floor((n - 62) / 3) samples
\* (none below 62) have come out of the n given; output k, counted from 0, was
\* computed from stream samples 3k .. 3k + 62; and keep holds the last 62
\* samples plus the 0 to 2 not yet consumed, or everything while n < 62.
C25_ChunkingInvariant ==
  /\ Len(dsOut) = Max(0, (dsFed - DecimNeed) \div 3)
  /\ \A k \in 1..Len(dsOut) :
       dsOut[k].win = [j \in 1..TAPS |-> 3 * (k - 1) + j - 1]
  /\ [j \in 1..Len(keep) |-> keep[j].i] =
       IF dsFed < DecimNeed THEN LastPositions(dsFed)
       ELSE LastPositions(DecimNeed + ((dsFed - DecimNeed) % 3))

\* Two outputs have come out of 70 samples given in more than one call, the
\* last of them cut inside a group of three.
C25_Witness ==
  /\ dsFed = 70
  /\ Len(dsOut) = 2
  /\ Len(keep) = 64
  /\ dsLast.fn = "decimate"
  /\ dsLast.inLen = 1

\* C26: a call of the decimator or of the framer with no input returns
\* nothing and leaves keep, respectively the remainder, as it was.
C26_EmptyInputNoChange ==
  [][ (dsLast' # dsLast /\ dsLast'.inLen = 0 /\ dsLast'.fn \in {"decimate", "flush"})
        => /\ dsLast'.outLen = 0
           /\ keep' = keep /\ dsOut' = dsOut
           /\ ulawRemainder' = ulawRemainder /\ framerQueue' = framerQueue
           /\ uncaught' = uncaught ]_vars

\* An empty call of the decimator met a keep with a remainder of two; the
\* framer holds a remainder too.
C26_Witness ==
  /\ dsLast = [fn |-> "decimate", inLen |-> 0, outLen |-> 0]
  /\ Len(keep) = 64
  /\ Len(ulawRemainder) = 100
  /\ Len(framerQueue) = 1

\* C27: fed silence, the decimator returns zeros only, and so does the
\* upsampler.
C27_SilenceStaysSilent ==
  dsSignal = "zero"
    => /\ \A k \in 1..Len(dsOut) : dsOut[k].v = 0
       /\ \A j \in 1..Len(upOut) : upOut[j] = 0

C27_Witness ==
  /\ dsSignal = "zero"
  /\ Len(dsOut) = 2
  /\ Len(upOut) = 4
  /\ dsFir = "alternating"

\* C28: a failing tool invocation (unknown tool name, missing url or term,
\* fetch failure, non-OK HTTP status) reaches the caller of runTool as a
\* structured error result value: the promise resolves, with an error value,
\* and never rejects.
C28_ToolFailuresAreResults ==
  \A i \in 1..Len(toolLog) :
    toolLog[i].failure # "none"
      => /\ toolLog[i].settled = "resolved"
         /\ toolLog[i].error # ""

\* The G.711 expansion of byte b, as an unbounded integer.
G711Reference(b) ==
  LET u         == 255 - b                    \* ~b & 0xFF
      magnitude == (((u % 16) * 8) + 132) * (2 ^ ((u \div 16) % 8)) - 132
  IN  IF BitAnd1(u, 128) # 0 THEN -magnitude ELSE magnitude

\* C30: for every byte b the table-driven decoder returns the G.711
\* reference value of b, and the value the table builder computed for b lies
\* within the signed 16-bit range, so that storing it does not wrap.
C30_DecodeIsG711 ==
  (codecPcm # <<>>)
    => \A i \in 1..Len(codecIn) :
         /\ codecPcm[i] = G711Reference(codecIn[i])
         /\ MuLawExpandRaw(codecIn[i]) \in -32768..32767

\* C31: in the snapshot, once the session has been torn down (stop handled,
\* or the telephony socket closed) the pacing timer is not running, whatever
\* the AI socket delivers afterwards.
C31_NoPacerAfterTeardown ==
  (Listening /\ twilioState # "OPEN") => ~pacerOn

\* C32: caller and assistant audio are never mixed in the outbound queue: no
\* caller echo frame is appended while assistant frames not yet played remain
\* in it.  The queue is first-in first-out, so such a frame is one that
\* stands behind an assistant frame.  Stated of a live call: the session id
\* is known and both sockets are open.
C32_NoEchoBehindAssistant ==
  (Truthy(streamSid) /\ twilioState = "OPEN" /\ openaiState = "OPEN")
    => \A i, j \in 1..Len(queue) :
         i < j => ~(queue[i].src = "ai" /\ queue[j].src = "echo")

\* C33: after the telephony socket has closed, no step appends a frame to
\* the outbound queue and no step sends a message to the AI transport;
\* neither an AI audio delta nor a start handler resuming from its lookup.
C33_NothingAfterTeardown ==
  [][ twilioState = "CLOSED"
        => /\ enqueued' = enqueued
           /\ openaiSent' = openaiSent ]_vars

\* C34: in the noecho variant, whichever of the two comes first, once the
\* start event's lookup has completed and the AI socket is open, a
\* session.update carrying the call's sym and inst and one greeting request
\* have been sent.  (No later handler sends either, so "eventually" is "by
\* then".)
C34_InstructionsReachAi ==
  ( /\ variant = "noecho"
    /\ Len(enqueued) > 0
    /\ pendingLookups = 0
    /\ openaiState = "OPEN"
    /\ openaiReady )
    => /\ \E i \in 1..Len(openaiSent) :
            openaiSent[i] = Msg("session.update", <<symParam>> \o instParam)
       /\ CountType(openaiSent, "response.create") = 1

\* Frames followed one by one: the first, the last of the tone, the last of
\* all (frame k is the k-th frame ever appended).
DrainProbes == {1, ToneFrames, MaxFrames}

\* C35: with the pacer firing again and again, every frame appended to the
\* queue while the session id is known and the telephony socket is open is
\* eventually sent to the telephony peer, unless the socket leaves OPEN or the
\* session id is lost.  Frames leave the queue only by being sent, in order,
\* so for all frames at once: the queue is eventually empty with every frame
\* appended so far sent; and for the frames followed one by one: frame k is
\* eventually among the frames sent.
C35_QueueDrains ==
  /\ (Truthy(streamSid) /\ twilioState = "OPEN")
       ~> \/ queue = <<>> /\ Len(twilioSent) = Len(enqueued)
          \/ twilioState # "OPEN"
          \/ ~Truthy(streamSid)
  /\ \A k \in DrainProbes :
       (Len(enqueued) >= k /\ Truthy(streamSid) /\ twilioState = "OPEN")
         ~> \/ \E i \in 1..Len(twilioSent) : twilioSent[i].frame.id = k
            \/ twilioState # "OPEN"
            \/ ~Truthy(streamSid)

\* The tone and two more frames were queued in a burst and all were played on
\* an open call.
C35_Witness ==
  /\ Truthy(streamSid)
  /\ twilioState = "OPEN"
  /\ Len(enqueued) > ToneFrames
  /\ Len(twilioSent) = Len(enqueued)
  /\ queue = <<>>

\* C36: in every state of a call at most one safety timer is pending, and
\* while one is pending assistantSpeaking is true.
C36_OneTimerWhileSpeaking ==
  /\ timersArmed <= 1
  /\ timersArmed > 0 => assistantSpeaking
  /\ timerPending => (timersArmed = 1 /\ timerHandle)

\* A second delta re-marked while the timer of the first was still pending.
C36_Witness ==
  /\ nDeltas >= 2
  /\ timersArmed = 1
  /\ timerPending
  /\ assistantSpeaking

\* C37: a start message delivered on the telephony socket at any time after
\* the connection was accepted is processed (it binds the session id and
\* queues the tone): none is lost.
C37_StartIsProcessed ==
  \A i \in 1..Len(dropLog) : dropLog[i].kind # "start"

====
